---- MODULE Spec2Model ----
(***************************************************************************)
(* Tamper-evident POS audit log and anomaly engine of the retail theft     *)
(* detection backend: the hash chain (services/hashChain.js), the write    *)
(* path that appends to it (routes/pos.js), camera ingestion and alerts    *)
(* (routes/alerts.js) and the eight detectors with their aggregator        *)
(* (services/riskEngine.js).                                               *)
(*                                                                         *)
(* Conventions.  Times are whole seconds since 1970-01-01T00:00:00Z.  A    *)
(* SHA-256 digest of a JSON serialisation is modelled by the tuple of the  *)
(* serialised values (collision-free hashing): two digests are equal       *)
(* exactly when every serialised value is.  JS null and undefined are the  *)
(* sentinels below; JSON.stringify drops a key whose value is undefined,   *)
(* which the tuple keeps apart from every other value of that key.         *)
(***************************************************************************)
EXTENDS Integers, Sequences, FiniteSets, TLC

VARIABLES
    log,      \* table transaction_log, rows in ascending id order
    seq,      \* sqlite_sequence of transaction_log (AUTOINCREMENT): last id handed out
    transactions,       \* table transactions, rows in insertion order
    transaction_items,  \* table transaction_items
    drawer_balance,     \* table drawer_balance
    drawer_entries,     \* table drawer_entries
    camera_events,      \* table camera_events
    alerts,             \* table alerts
    atk,      \* what a party with direct database access has done to the log so far
    arg,      \* the array handed to HashChain.verifyChain by a direct caller
    now,      \* the server clock (Date.now(), datetime('now'))
    resp      \* the last response or return value

\* The tables other than the audit log.
store == <<transactions, transaction_items, drawer_balance, drawer_entries,
           camera_events, alerts>>

vars == <<log, seq, store, atk, arg, now, resp>>

----------------------------------------------------------------------------
(* Values *)

NullStr == "<null>"            \* JS null / SQL NULL in a text field
UndefinedStr == "<undefined>"  \* JS undefined (a missing property) in a text field
NullHash == <<>>               \* null in prev_hash / hash
UndefinedHash == <<UndefinedStr>>
NullId == 0                    \* brokenAt: null
UndefinedNum == -1             \* a missing numeric property

(* Time *)
Minute == 60
Hour == 60 * Minute
Day == 24 * Hour
\* Offset of the server's local time from UTC, read by Date.prototype.getHours.
TZOffsetSec == 0
LocalHour(t) == ((t + TZOffsetSec) \div Hour) % 24
\* The UTC calendar day of a time: the YYYY-MM-DD prefix of both text forms.
DayOf(t) == t \div Day

\* Confidences are fixed-point numbers in units of 1/ConfScale; ConfScale is a
\* multiple of 100 (the detectors' constants) and of 7200 (seconds in the 120
\* minutes that scale detector 5's gap confidence).
ConfScale == 100 * 720
Conf(pct) == pct * (ConfScale \div 100)
Min(a, b) == IF a <= b THEN a ELSE b
Max(a, b) == IF a >= b THEN a ELSE b

\* The payloads that are not JSON texts: JSON.parse throws a SyntaxError on them.
NonJSON == {"not-json"}

----------------------------------------------------------------------------
(* db/schema.sql and seed.js: the store after construction *)

NullTime == -1                 \* SQL NULL in a timestamp column

\* The clock when the server starts to take requests: 09:00 UTC of a day.
T0 == Day + 9 * Hour

NoResp == [op |-> "none"]

\* The rows of table users in insertion order; a user's id is modelled by the
\* username.
UserIds == <<"admin", "manager1", "cashier1", "cashier2", "cashier3">>
Users == {UserIds[i] : i \in 1..Len(UserIds)}
Role(u) ==
    CASE u = "admin"    -> "admin"
      [] u = "manager1" -> "manager"
      [] u \in {"cashier1", "cashier2", "cashier3"} -> "cashier"

\* `counter-${req.user.username}`
CounterOf(u) == "counter-" \o u

\* Column default of counter_id.
DefaultCounter == "counter-1"

\* Table products: the catalogued product offered to the requests, price in cents.
Products == {"RICE-001"}
ProductPrice(p) == CASE p = "RICE-001" -> 250

\* seed.js: no transaction, no event, no alert, and a drawer balance of 0 for
\* each cashier's counter.
StoreSeeded ==
    /\ transactions = <<>>
    /\ transaction_items = <<>>
    /\ drawer_balance = <<[counter_id |-> CounterOf("cashier1"), cashier_id |-> "cashier1",
                           current_balance |-> 0, last_updated |-> Day]>>
    /\ drawer_entries = <<>>
    /\ camera_events = <<>>
    /\ alerts = <<>>

(* Comparison of timestamp texts.  new Date().toISOString() writes              *)
(* 'YYYY-MM-DDTHH:MM:SS.sssZ' (the log, created_at, completed_at, voided_at,    *)
(* every `since`); SQLite's datetime() writes 'YYYY-MM-DD HH:MM:SS' (column     *)
(* defaults of camera_events.timestamp and alerts.created_at, refunded_at, and  *)
(* datetime(x, '-5 minutes')).  SQL compares the two as texts: texts of one     *)
(* form order as their times do; between the two forms the calendar day         *)
(* decides, and on the same day the 'T' form is the greater (' ' < 'T').        *)
\* The comparison >= of two ISO texts taken as >.
IsoGtIso(a, b) == a > b
IsoGeIso(a, b) == a >= b
\* a < b instead of a <= b.
IsoLtIso(a, b) == a < b

IsoLeIso(a, b) == a <= b
SqlGeSql(a, b) == a >= b
SqlLeSql(a, b) == a <= b
IsoGeSql(a, b) == DayOf(a) >= DayOf(b)
IsoLeSql(a, b) == DayOf(a) < DayOf(b)
SqlGeIso(a, b) == DayOf(a) > DayOf(b)
SqlLeIso(a, b) == DayOf(a) <= DayOf(b)

----------------------------------------------------------------------------
(* services/hashChain.js *)

\* generateHash with the timestamp left out of the serialisation.
GenerateHashNoTimestamp(entry, prevHash) ==
    << entry.transaction_id, entry.action, entry.performed_by, entry.details,
       0, IF prevHash = UndefinedHash THEN NullHash ELSE prevHash >>

\* generateHash with the details left out of the serialisation.
GenerateHashNoDetails(entry, prevHash) ==
    << entry.transaction_id, entry.action, entry.performed_by, NullStr,
       entry.timestamp, IF prevHash = UndefinedHash THEN NullHash ELSE prevHash >>

\* HashChain.generateHash(entry, prevHash = null): the digest of
\* {transaction_id, action, performed_by, details, timestamp, prev_hash: prevHash}.
\* The entry's own prev_hash field is not read; an undefined prevHash takes the
\* parameter's default, null.
GenerateHash(entry, prevHash) ==
    << entry.transaction_id, entry.action, entry.performed_by, entry.details,
       entry.timestamp, IF prevHash = UndefinedHash THEN NullHash ELSE prevHash >>

\* The three outcomes of verifyChain.
ChainValid == [threw |-> FALSE, valid |-> TRUE, brokenAt |-> NullId, reason |-> NullStr]
ChainBroken(id, why) == [threw |-> FALSE, valid |-> FALSE, brokenAt |-> id, reason |-> why]
ChainThrew == [threw |-> TRUE, valid |-> FALSE, brokenAt |-> NullId, reason |-> "TypeError"]

RECURSIVE VerifyFrom(_, _)
\* The loop of verifyChain from index i (1-based).  A null or undefined element
\* makes generateHash read a property of null: a TypeError leaves the function.
VerifyFrom(logs, i) ==
    IF i > Len(logs) THEN ChainValid
    ELSE LET entry == logs[i]
             prevHash == IF i > 1 THEN logs[i - 1].hash ELSE NullHash
         IN  IF ~entry.obj THEN ChainThrew
             ELSE LET computed == GenerateHash(entry, prevHash)
                  IN  IF computed # entry.hash
                        THEN ChainBroken(entry.id, "hash mismatch")
                      ELSE IF entry.prev_hash # prevHash
                        THEN ChainBroken(entry.id, "prev_hash mismatch")
                      ELSE VerifyFrom(logs, i + 1)

RECURSIVE VerifyFromHashOnly(_, _)
\* verifyChain without the prev_hash comparison.
VerifyFromHashOnly(logs, i) ==
    IF i > Len(logs) THEN ChainValid
    ELSE LET entry == logs[i]
             prevHash == IF i > 1 THEN logs[i - 1].hash ELSE NullHash
         IN  IF ~entry.obj THEN ChainThrew
             ELSE IF GenerateHash(entry, prevHash) # entry.hash
                    THEN ChainBroken(entry.id, "hash mismatch")
                  ELSE VerifyFromHashOnly(logs, i + 1)

VerifyChainHashOnly(logs) == VerifyFromHashOnly(logs, 1)

\* HashChain.verifyChain(logs)
VerifyChain(logs) == VerifyFrom(logs, 1)

----------------------------------------------------------------------------
(* routes/pos.js: appendLog *)

\* appendLog that chains the new row to the first row instead of the last.
AppendLogFromFirst(l, s, transactionId, action, performedBy, details, timestamp) ==
    LET prevHash == IF Len(l) > 0 THEN l[1].hash ELSE NullHash
        entry == [transaction_id |-> transactionId, action |-> action,
                  performed_by |-> performedBy, details |-> details,
                  timestamp |-> timestamp, prev_hash |-> prevHash]
    IN  Append(l, [obj |-> TRUE, id |-> s + 1, transaction_id |-> transactionId,
                   action |-> action, performed_by |-> performedBy,
                   details |-> details, timestamp |-> timestamp,
                   prev_hash |-> prevHash, hash |-> GenerateHash(entry, prevHash)])

\* appendLog that overwrites the last row instead of inserting a new one.
AppendLogOverwrite(l, s, transactionId, action, performedBy, details, timestamp) ==
    LET keep == IF Len(l) > 0 THEN SubSeq(l, 1, Len(l) - 1) ELSE l
        prevHash == IF Len(keep) > 0 THEN keep[Len(keep)].hash ELSE NullHash
        entry == [transaction_id |-> transactionId, action |-> action,
                  performed_by |-> performedBy, details |-> details,
                  timestamp |-> timestamp, prev_hash |-> prevHash]
    IN  Append(keep, [obj |-> TRUE, id |-> s + 1, transaction_id |-> transactionId,
                      action |-> action, performed_by |-> performedBy,
                      details |-> details, timestamp |-> timestamp,
                      prev_hash |-> prevHash, hash |-> GenerateHash(entry, prevHash)])

\* appendLog(transactionId, action, performedBy, details) on the table l whose
\* AUTOINCREMENT counter is s, at clock reading timestamp: reads the hash of the
\* row with the highest id, hashes the new entry against it and inserts the row.
\* details is the JSON text of the caller's object (every caller passes one).
AppendLog(l, s, transactionId, action, performedBy, details, timestamp) ==
    LET prevHash == IF Len(l) > 0 THEN l[Len(l)].hash ELSE NullHash
        entry == [transaction_id |-> transactionId, action |-> action,
                  performed_by |-> performedBy, details |-> details,
                  timestamp |-> timestamp, prev_hash |-> prevHash]
    IN  Append(l, [obj |-> TRUE, id |-> s + 1, transaction_id |-> transactionId,
                   action |-> action, performed_by |-> performedBy,
                   details |-> details, timestamp |-> timestamp,
                   prev_hash |-> prevHash, hash |-> GenerateHash(entry, prevHash)])

----------------------------------------------------------------------------
(* services/riskEngine.js: AnomalyEngine, detector 5 *)

\* One anomaly.  ref is the finding's id, a and b the two ids or numbers its
\* description names (0 when it names none).
Finding(kind, ref, a, b, timestamp, confidence, riskWeight, severity) ==
    [kind |-> kind, ref |-> ref, a |-> a, b |-> b, timestamp |-> timestamp,
     confidence |-> confidence, risk_weight |-> riskWeight, severity |-> severity,
     cashier_id |-> UndefinedStr, transaction_id |-> UndefinedStr,
     category |-> UndefinedStr]

\* An anomaly that carries the actor and the transaction it is about.
FindingOf(kind, ref, cashierId, transactionId, timestamp, confidence, riskWeight, severity) ==
    [Finding(kind, ref, 0, 0, timestamp, confidence, riskWeight, severity)
        EXCEPT !.cashier_id = cashierId, !.transaction_id = transactionId]

\* A detector returns its anomalies or is left by an exception.
Returned(items) == [threw |-> FALSE, items |-> items]
Thrown == [threw |-> TRUE, items |-> <<>>]

\* LIMIT of the id-continuity query.
IdGapLimit == 10

\* Every row the id-continuity query can match: the pairs <<a.id, b.id>> with
\* b.id = a.id + 2 and no row of id a.id + 1.
IdGapMatches(logs) ==
    LET ids == {logs[i].id : i \in 1..Len(logs)}
    IN  {<<h, h + 2>> : h \in {x \in ids : (x + 2) \in ids /\ (x + 1) \notin ids}}

RECURSIVE SortPairs(_)
\* A set of pairs as a sequence ascending in the first component.
SortPairs(S) ==
    IF S = {} THEN <<>>
    ELSE LET m == CHOOSE p \in S : \A q \in S : p[1] <= q[1]
         IN  <<m>> \o SortPairs(S \ {m})

\* The query without its LIMIT.
IdGapQueryUnlimited(logs) == {SortPairs(IdGapMatches(logs))}

\* The results the query may return: it has no ORDER BY, so under LIMIT any
\* IdGapLimit of the matching rows (all of them when there are no more).
IdGapQuery(logs) ==
    LET M == IdGapMatches(logs)
    IN  IF Cardinality(M) <= IdGapLimit THEN {SortPairs(M)}
        ELSE {SortPairs(R) : R \in {T \in SUBSET M : Cardinality(T) = IdGapLimit}}

RECURSIVE TimestampGaps(_, _)
\* The timestamp-gap loop of detectLogTampering from index i (1-based, i >= 2):
\* more than 30 minutes between two rows adjacent in the result, the earlier one
\* at a local hour from 8 to 22.
TimestampGaps(logs, i) ==
    IF i > Len(logs) THEN <<>>
    ELSE LET prev == logs[i - 1].timestamp
             curr == logs[i].timestamp
             gapSec == curr - prev
             hour == LocalHour(prev)
             rest == TimestampGaps(logs, i + 1)
         IN  IF gapSec > 30 * Minute /\ hour >= 8 /\ hour <= 22
               THEN <<Finding("gap", ToString(logs[i].id), 0, 0, curr,
                              Min(Conf(95), Conf(50) + gapSec * (ConfScale \div (120 * Minute))),
                              30,
                              IF gapSec > 60 * Minute THEN "critical" ELSE "high")>> \o rest
               ELSE rest

\* detectLogTampering(), its id-continuity query having returned idGaps, at clock
\* reading t.
DetectLogTampering(logs, idGaps, t) ==
    LET chainResult == VerifyChain(logs)
        chain == IF Len(logs) > 0 /\ ~chainResult.valid
                   THEN <<Finding("chain_break", ToString(chainResult.brokenAt),
                                  chainResult.brokenAt, 0, t, Conf(100), 50, "critical")>>
                   ELSE <<>>
        gaps == IF Len(logs) > 0 THEN TimestampGaps(logs, 2) ELSE <<>>
        holes == [i \in 1..Len(idGaps) |->
                    Finding("id_gap", ToString(idGaps[i][1]), idGaps[i][1], idGaps[i][2],
                            t, Conf(90), 40, "critical")]
    IN  IF Len(logs) > 0 /\ chainResult.threw THEN Thrown
        ELSE Returned(chain \o gaps \o holes)

\* integrityReport()
IntegrityReport(logs) ==
    LET chainResult == VerifyChain(logs)
    IN  [threw |-> chainResult.threw, total_entries |-> Len(logs),
         valid |-> chainResult.valid, brokenAt |-> chainResult.brokenAt]

----------------------------------------------------------------------------
(* services/riskEngine.js: AnomalyEngine, detectors 1 to 4 and 6 to 8 *)

RECURSIVE OrderDescFrom(_, _)
\* The positions `left` of keys in descending key order, equal keys in table
\* order (ORDER BY ... DESC over a table scan).
OrderDescFrom(keys, left) ==
    IF left = {} THEN <<>>
    ELSE LET m == CHOOSE i \in left :
                     \A j \in left : keys[i] > keys[j] \/ (keys[i] = keys[j] /\ i <= j)
         IN  <<m>> \o OrderDescFrom(keys, left \ {m})

OrderDesc(keys) == OrderDescFrom(keys, DOMAIN keys)

\* JSON.parse(text || '{}') throws on a text that is not JSON.
JsonParseThrows(text) == text \in NonJSON

\* 1. detectUnauthorizedDrawerOpen(since)
DetectUnauthorizedDrawerOpen(since) ==
    LET rows == SelectSeq(log, LAMBDA r : r.action = "drawer_opened"
                                          /\ IsoGeIso(r.timestamp, since))
        ord == OrderDesc([i \in 1..Len(rows) |-> rows[i].timestamp])
        drawerEvents == [i \in 1..Len(rows) |-> rows[ord[i]]]
        MatchingPayment(evt) ==
            \E i \in 1..Len(log) :
                /\ log[i].transaction_id = evt.transaction_id
                /\ log[i].action = "cash_payment"
                /\ IsoLeIso(log[i].timestamp, evt.timestamp)
                /\ IsoGeSql(log[i].timestamp, evt.timestamp - 5 * Minute)
        unmatched == SelectSeq(drawerEvents, LAMBDA e : ~MatchingPayment(e))
        forcedAlerts == SelectSeq(alerts, LAMBDA a : a.source = "drawer"
                                                     /\ a.severity = "critical"
                                                     /\ SqlGeIso(a.created_at, since))
    IN  IF \E i \in 1..Len(unmatched) : JsonParseThrows(unmatched[i].details)
          THEN Thrown
          ELSE Returned(
                 [i \in 1..Len(unmatched) |->
                     FindingOf("drawer_unmatched", ToString(unmatched[i].id),
                               unmatched[i].performed_by, unmatched[i].transaction_id,
                               unmatched[i].timestamp, Conf(85), 20, "high")]
                 \o
                 [i \in 1..Len(forcedAlerts) |->
                     FindingOf("drawer_forced", forcedAlerts[i].id,
                               forcedAlerts[i].cashier_id, UndefinedStr,
                               forcedAlerts[i].created_at, Conf(95), 25, "critical")])

\* The customer_present query with a window of two seconds either side.
CustomerPresentTwoSeconds(counterId, t, d) ==
    \E i \in 1..Len(camera_events) :
        /\ camera_events[i].event_type = "customer_present"
        /\ camera_events[i].counter_id = counterId
        /\ SqlGeSql(camera_events[i].timestamp, t - 2)
        /\ SqlLeSql(camera_events[i].timestamp, t + 2)

\* A customer_present camera event at the counter within d seconds of time t
\* (timestamp BETWEEN datetime(t, '-d') AND datetime(t, '+d'), both SQLite texts).
CustomerPresent(counterId, t, d) ==
    \E i \in 1..Len(camera_events) :
        /\ camera_events[i].event_type = "customer_present"
        /\ camera_events[i].counter_id = counterId
        /\ SqlGeSql(camera_events[i].timestamp, t - d)
        /\ SqlLeSql(camera_events[i].timestamp, t + d)

\* 2. detectPhantomTransactions(since)
DetectPhantomTransactions(since) ==
    LET rows == SelectSeq(transactions, LAMBDA t : t.status = "completed"
                                                   /\ t.cashier_id \in Users
                                                   /\ IsoGeIso(t.completed_at, since))
        ord == OrderDesc([i \in 1..Len(rows) |-> rows[i].completed_at])
        txns == [i \in 1..Len(rows) |-> rows[ord[i]]]
        phantom == SelectSeq(txns, LAMBDA t :
                       ~CustomerPresent(t.counter_id, t.completed_at, 3 * Minute)
                       /\ t.payment_method = "cash")
    IN  Returned([i \in 1..Len(phantom) |->
                    FindingOf("phantom", phantom[i].id, phantom[i].cashier_id,
                              phantom[i].id, phantom[i].completed_at,
                              Conf(75), 20, "high")])

\* The subquery of detector 3: the timestamp of the first 'completed' log row of
\* the transaction, NULL when there is none.
CompletedTime(id) ==
    LET rows == SelectSeq(log, LAMBDA r : r.transaction_id = id /\ r.action = "completed")
    IN  IF Len(rows) > 0 THEN rows[1].timestamp ELSE NullTime

\* 3. detectVoidRefundCover(since) on a server whose local time is tz seconds
\* ahead of UTC.  voided_at is an ISO text; refunded_at is a datetime('now')
\* text, which new Date() reads as local time.
DetectVoidRefundCoverIn(tz, since) ==
    LET rows == SelectSeq(transactions, LAMBDA t : t.status \in {"voided", "refunded"}
                                                   /\ t.cashier_id \in Users
                                                   /\ IsoGeIso(t.created_at, since))
        ord == OrderDesc([i \in 1..Len(rows) |-> rows[i].created_at])
        voidedTxns == [i \in 1..Len(rows) |-> rows[ord[i]]]
        VoidTime(t) == IF t.voided_at # NullTime THEN t.voided_at ELSE t.refunded_at
        VoidInstant(t) == IF t.voided_at # NullTime THEN t.voided_at
                          ELSE t.refunded_at - tz
        Gap(t) == VoidInstant(t) - CompletedTime(t.id)
        Covered(t) == /\ CompletedTime(t.id) # NullTime
                      /\ VoidTime(t) # NullTime
                      /\ Gap(t) <= 10 * Minute
                      /\ Gap(t) >= 0
        ConfOf(t) == IF Gap(t) <= 2 * Minute THEN Conf(95)
                     ELSE IF Gap(t) <= 5 * Minute THEN Conf(80) ELSE Conf(65)
        hits == SelectSeq(voidedTxns, Covered)
    IN  Returned([i \in 1..Len(hits) |->
                    [FindingOf("void_cover", hits[i].id, hits[i].cashier_id, hits[i].id,
                               VoidTime(hits[i]), ConfOf(hits[i]), 20,
                               IF ConfOf(hits[i]) >= Conf(80) THEN "critical" ELSE "high")
                        EXCEPT !.a = Gap(hits[i])]])

\* 3. detectVoidRefundCover(since) on the server of the model.
DetectVoidRefundCover(since) == DetectVoidRefundCoverIn(TZOffsetSec, since)

\* cashiers.length with the seeded accounts only.
CashierCountSeeded(registered) == Cardinality({u \in Users : Role(u) = "cashier"})

\* cashiers.length: the seeded cashier accounts and the cashier accounts
\* registered since.
CashierCount(registered) == Cardinality({u \in Users : Role(u) = "cashier"}) + Len(registered)

\* 4. detectDiscountAbuse(since) with the cashier accounts registered since the
\* seed.
DetectDiscountAbuseAmong(registered, since) ==
    LET Count(u) == Cardinality({i \in 1..Len(log) :
                        /\ log[i].performed_by = u
                        /\ log[i].action \in {"price_edited", "discount_applied"}
                        /\ IsoGeIso(log[i].timestamp, since)})
        groups == SelectSeq(UserIds \o registered, LAMBDA u : Count(u) > 0)
        RECURSIVE Total(_)
        Total(i) == IF i > Len(groups) THEN 0 ELSE Count(groups[i]) + Total(i + 1)
        totalDiscounts == Total(1)
        n == CashierCount(registered)
        \* d.discount_count > avgPerCashier * k
        Above(u, k) == IF n > 0 THEN Count(u) * n > totalDiscounts * k ELSE Count(u) > 0
        \* (d.discount_count / (avgPerCashier || 1)) * 0.1
        Tenth(u) == IF n > 0 /\ totalDiscounts > 0
                      THEN (Count(u) * n * (ConfScale \div 10)) \div totalDiscounts
                      ELSE Count(u) * (ConfScale \div 10)
        hits == SelectSeq(groups, LAMBDA u : Above(u, 2) /\ Count(u) >= 3)
    IN  Returned([i \in 1..Len(hits) |->
                    [FindingOf("discount", hits[i], hits[i], UndefinedStr, since,
                               Min(Conf(95), Conf(50) + Tenth(hits[i])), 12,
                               IF Above(hits[i], 5) THEN "critical" ELSE "medium")
                        EXCEPT !.a = Count(hits[i])]])

\* 4. detectDiscountAbuse(since) on the seeded accounts.
DetectDiscountAbuse(since) == DetectDiscountAbuseAmong(<<>>, since)

\* 6. detectDrawerNoTransaction(since).  completed_at is an ISO text compared
\* with the two datetime() texts around the event.
DetectDrawerNoTransaction(since) ==
    LET drawerEvents == SelectSeq(camera_events, LAMBDA e :
                            /\ e.event_type \in {"drawer_opened_no_pos", "drawer_forced_open"}
                            /\ SqlGeIso(e.timestamp, since))
        Matches(evt) == SelectSeq(transactions, LAMBDA t :
                            /\ t.counter_id = evt.counter_id
                            /\ t.status = "completed"
                            /\ IsoGeSql(t.completed_at, evt.timestamp - 2 * Minute)
                            /\ IsoLeSql(t.completed_at, evt.timestamp + 2 * Minute))
        Has(evt) == Len(Matches(evt)) > 0
    IN  Returned([i \in 1..Len(drawerEvents) |->
                    LET evt == drawerEvents[i]
                    IN  FindingOf("drawer_no_txn", evt.id, evt.cashier_id,
                                  IF Has(evt) THEN Matches(evt)[1].id ELSE NullStr,
                                  evt.timestamp,
                                  IF Has(evt) THEN Conf(50) ELSE evt.confidence,
                                  IF Has(evt) THEN 10 ELSE 25,
                                  IF Has(evt) THEN "medium" ELSE "high")])

\* LIMIT of the out-of-sequence query.
OutOfOrderLimit == 10

\* Positions of the log rows a the out-of-sequence query matches: the row of id
\* a.id + 1 exists and carries an earlier timestamp, and a is inside the window.
OutOfOrderMatches(since) ==
    {i \in 1..Len(log) :
        /\ \E j \in 1..Len(log) : /\ log[j].id = log[i].id + 1
                                  /\ log[i].timestamp > log[j].timestamp
        /\ IsoGeIso(log[i].timestamp, since)}

RECURSIVE SortSet(_)
\* A set of numbers as an ascending sequence.
SortSet(S) ==
    IF S = {} THEN <<>>
    ELSE LET m == CHOOSE x \in S : \A y \in S : x <= y
         IN  <<m>> \o SortSet(S \ {m})

\* The results the query may return under its LIMIT (it has no ORDER BY).
OutOfOrderQuery(since) ==
    LET M == OutOfOrderMatches(since)
    IN  IF Cardinality(M) <= OutOfOrderLimit THEN {SortSet(M)}
        ELSE {SortSet(R) : R \in {T \in SUBSET M : Cardinality(T) = OutOfOrderLimit}}

\* 7. detectTimeManipulation(since), the out-of-sequence query having returned
\* the log positions outOfOrder, at clock reading t.
DetectTimeManipulation(since, outOfOrder, t) ==
    LET futureTxns == SelectSeq(transactions, LAMBDA x :
                          /\ x.cashier_id \in Users
                          /\ x.created_at > t + Minute
                          /\ IsoGeIso(x.created_at, since))
    IN  Returned(
          [i \in 1..Len(futureTxns) |->
              [FindingOf("future", futureTxns[i].id, futureTxns[i].cashier_id,
                         UndefinedStr, futureTxns[i].created_at, Conf(90), 30, "critical")
                  EXCEPT !.a = futureTxns[i].created_at - t]]
          \o
          [i \in 1..Len(outOfOrder) |->
              [FindingOf("out_of_order", ToString(log[outOfOrder[i]].id),
                         log[outOfOrder[i]].performed_by, UndefinedStr,
                         log[outOfOrder[i]].timestamp, Conf(85), 25, "high")
                  EXCEPT !.a = log[outOfOrder[i]].id, !.b = log[outOfOrder[i]].id + 1]])

\* 8. detectCrossSourceCorrelation(since)
DetectCrossSourceCorrelation(since) ==
    LET suspicious == SelectSeq(camera_events, LAMBDA e :
                          /\ e.event_type \in {"hand_to_pocket", "suspicious_gesture",
                                               "drawer_forced_open"}
                          /\ SqlGeIso(e.timestamp, since))
        \* COUNT(*) of log rows by the event's cashier around the event; a NULL
        \* cashier_id equals no performed_by.
        PosActivity(evt) ==
            Cardinality({i \in 1..Len(log) :
                /\ evt.cashier_id # NullStr
                /\ log[i].performed_by = evt.cashier_id
                /\ IsoGeSql(log[i].timestamp, evt.timestamp - 5 * Minute)
                /\ IsoLeSql(log[i].timestamp, evt.timestamp + 5 * Minute)})
        cameraOnly == SelectSeq(suspicious, LAMBDA e : PosActivity(e) = 0)
        TxnOf(id) == SelectSeq(transactions, LAMBDA t : t.id = id)
        voidLogs == SelectSeq(log, LAMBDA r :
                          /\ r.action \in {"voided", "refunded"}
                          /\ IsoGeIso(r.timestamp, since)
                          /\ r.performed_by \in Users
                          /\ Len(TxnOf(r.transaction_id)) > 0)
        noCustomer == SelectSeq(voidLogs, LAMBDA r :
                          ~CustomerPresent(TxnOf(r.transaction_id)[1].counter_id,
                                           r.timestamp, 2 * Minute))
    IN  Returned(
          [i \in 1..Len(cameraOnly) |->
              FindingOf("camera_only", cameraOnly[i].id, cameraOnly[i].cashier_id,
                        UndefinedStr, cameraOnly[i].timestamp,
                        (cameraOnly[i].confidence * 9) \div 10, 20,
                        IF cameraOnly[i].event_type = "drawer_forced_open"
                          THEN "critical" ELSE "high")]
          \o
          [i \in 1..Len(noCustomer) |->
              FindingOf("pos_void_no_customer", ToString(noCustomer[i].id),
                        noCustomer[i].performed_by, noCustomer[i].transaction_id,
                        noCustomer[i].timestamp, Conf(95), 25, "critical")])

----------------------------------------------------------------------------
(* services/riskEngine.js: AnomalyEngine.fullScan, the aggregator *)

\* categories[i] of fullScan, in detector order.
Categories ==
    << "unauthorized_drawer_open", "phantom_transaction", "void_refund_cover",
       "discount_abuse", "log_tampering", "drawer_no_transaction",
       "time_manipulation", "cross_source_correlation" >>

\* _categorySeverity taking the severity of the first item.
CategorySeverityFirst(items) ==
    IF Len(items) > 0 THEN items[1].severity ELSE "clear"

\* _categorySeverity(items)
CategorySeverity(items) ==
    LET Some(sev) == \E i \in 1..Len(items) : items[i].severity = sev
    IN  IF Some("critical") THEN "critical"
        ELSE IF Some("high") THEN "high"
        ELSE IF Some("medium") THEN "medium"
        ELSE IF Len(items) > 0 THEN "low" ELSE "clear"

RECURSIVE Flatten(_, _)
\* The sequences of seqs from index i on, concatenated.
Flatten(seqs, i) ==
    IF i > Len(seqs) THEN <<>> ELSE seqs[i] \o Flatten(seqs, i + 1)

RECURSIVE TotalScore(_, _)
\* totalScore += d.confidence * (d.risk_weight || 10) over the anomalies from
\* index i on, in units of 1/ConfScale.
TotalScore(anomalies, i) ==
    IF i > Len(anomalies) THEN 0
    ELSE anomalies[i].confidence
            * (IF anomalies[i].risk_weight # 0 THEN anomalies[i].risk_weight ELSE 10)
         + TotalScore(anomalies, i + 1)

\* Math.round of a number given in units of 1/ConfScale: the nearest integer,
\* a half rounded towards plus infinity.
Round(x) == (x + ConfScale \div 2) \div ConfScale

\* results.prosecution_score = Math.min(100, Math.round(totalScore))
ProsecutionScore(totalScore) == Min(100, Round(totalScore))

\* What fullScan hands back when a detector throws: the exception.
ScanThrown == [threw |-> TRUE]

\* fullScan(hoursBack) at clock reading t, the two LIMIT queries having returned
\* idGaps and (as a function of since) outOfOrder.  The eight detectors run
\* first, in order, outside any try block; then the results are aggregated.
FullScan(hoursBack, idGaps, outOfOrder, t) ==
    LET since == t - hoursBack * Hour
        detectors == << DetectUnauthorizedDrawerOpen(since),
                        DetectPhantomTransactions(since),
                        DetectVoidRefundCover(since),
                        DetectDiscountAbuse(since),
                        DetectLogTampering(log, idGaps, t),
                        DetectDrawerNoTransaction(since),
                        DetectTimeManipulation(since, outOfOrder, t),
                        DetectCrossSourceCorrelation(since) >>
        Tagged(i) == [j \in 1..Len(detectors[i].items) |->
                         [detectors[i].items[j] EXCEPT !.category = Categories[i]]]
        anomalies == Flatten([i \in 1..Len(detectors) |-> Tagged(i)], 1)
    IN  IF \E i \in 1..Len(detectors) : detectors[i].threw THEN ScanThrown
        ELSE [threw |-> FALSE,
              scan_timestamp |-> t,
              period_hours |-> hoursBack,
              anomalies |-> anomalies,
              summary |-> [i \in 1..Len(detectors) |->
                              [category |-> Categories[i],
                               count |-> Len(detectors[i].items),
                               severity |-> CategorySeverity(detectors[i].items),
                               items |-> Tagged(i)]],
              total_anomalies |-> Len(anomalies),
              prosecution_score |-> ProsecutionScore(TotalScore(anomalies, 1))]

----------------------------------------------------------------------------
(* services/riskEngine.js: RiskEngine, the per-cashier risk scorer.  Scores   *)
(* are fixed-point numbers in units of 1/ConfScale, like confidences.         *)

\* SW_WEIGHTS[event.type] || 5
SwWeight(type) ==
    CASE type = "price_edit"         -> 15
      [] type = "void_transaction"   -> 20
      [] type = "refund"             -> 10
      [] type = "backdate"           -> 30
      [] type = "delete_attempt"     -> 50
      [] type = "unusual_discount"   -> 12
      [] type = "rapid_voids"        -> 25
      [] type = "off_hours_activity" -> 18
      [] OTHER                       -> 5

\* PH_WEIGHTS[event.event_type] || 10
PhWeight(eventType) ==
    CASE eventType = "hand_to_pocket"         -> 35
      [] eventType = "hand_hovering_drawer"   -> 15
      [] eventType = "drawer_opened_no_pos"   -> 40
      [] eventType = "drawer_forced_open"     -> 45
      [] eventType = "suspicious_gesture"     -> 20
      [] eventType = "repeated_drawer_access" -> 25
      [] OTHER                                -> 10

\* The score 100 in units of 1/ConfScale.
Score100 == 100 * ConfScale

RECURSIVE SoftwareSum(_, _)
\* score += weight * (event.confidence || 1) over the events from index i on.
SoftwareSum(events, i) ==
    IF i > Len(events) THEN 0
    ELSE SwWeight(events[i].type)
            * (IF events[i].confidence # 0 THEN events[i].confidence ELSE Conf(100))
         + SoftwareSum(events, i + 1)

\* RiskEngine.calculateSoftwareScore(events)
CalculateSoftwareScore(events) == Min(Score100, SoftwareSum(events, 1))

RECURSIVE PhysicalSum(_, _)
\* score += weight * (event.confidence || 0.5) over the events from index i on.
PhysicalSum(events, i) ==
    IF i > Len(events) THEN 0
    ELSE PhWeight(events[i].event_type)
            * (IF events[i].confidence # 0 THEN events[i].confidence ELSE Conf(50))
         + PhysicalSum(events, i + 1)

\* RiskEngine.calculatePhysicalScore(events)
CalculatePhysicalScore(events) == Min(Score100, PhysicalSum(events, 1))

\* RiskEngine.combinedScore(swScore, phScore): Math.round gives a whole number,
\* Math.max hands back one of its arguments as it is.
CombinedScore(swScore, phScore) ==
    IF swScore > 0 /\ phScore > 0
      THEN Min(Score100,
               ConfScale * ((45 * swScore + 55 * phScore + 50 * ConfScale)
                               \div (100 * ConfScale)))
      ELSE Max(swScore, phScore)

\* RiskEngine.getSeverity(score): the label of the SEVERITY entry returned.
GetSeverity(score) ==
    IF score <= 20 * ConfScale THEN "low"
    ELSE IF score <= 50 * ConfScale THEN "medium"
    ELSE IF score <= 80 * ConfScale THEN "high"
    ELSE "critical"

\* RiskEngine.evaluateCashier(db, cashierId, periodHours) at clock reading t.
EvaluateCashier(cashierId, periodHours, t) ==
    LET since == t - periodHours * Hour
        posLogs == SelectSeq(log, LAMBDA r :
                      /\ r.performed_by = cashierId
                      /\ IsoGeIso(r.timestamp, since)
                      /\ r.action \in {"price_edited", "voided", "refunded"})
        swEvents == [i \in 1..Len(posLogs) |->
                        [type |-> IF posLogs[i].action = "price_edited" THEN "price_edit"
                                  ELSE IF posLogs[i].action = "voided" THEN "void_transaction"
                                  ELSE "refund",
                         confidence |-> Conf(100)]]
        camEvents == SelectSeq(camera_events, LAMBDA e :
                        /\ e.cashier_id = cashierId
                        /\ SqlGeIso(e.timestamp, since)
                        /\ e.event_type # "normal")
        swScore == CalculateSoftwareScore(swEvents)
        phScore == CalculatePhysicalScore(camEvents)
        combined == CombinedScore(swScore, phScore)
    IN  [cashier_id |-> cashierId,
         software_score |-> swScore,
         physical_score |-> phScore,
         combined_score |-> combined,
         severity |-> GetSeverity(combined),
         sw_event_count |-> Len(swEvents),
         ph_event_count |-> Len(camEvents),
         period_hours |-> periodHours]

----------------------------------------------------------------------------
(* routes/pos.js: the tables behind the POS handlers *)

\* uuidv4() for the n-th row of a table: a text no earlier row carries.
RowId(prefix, n) == prefix \o ToString(n)

\* The row INSERT INTO transactions writes (column defaults included).
NewTransaction(id, cashierId, counterId, t) ==
    [id |-> id, cashier_id |-> cashierId, counter_id |-> counterId, status |-> "open",
     subtotal |-> 0, tax |-> 0, total |-> 0, payment_method |-> "cash",
     cash_received |-> 0, change_given |-> 0, customer_verified |-> 0,
     created_at |-> t, completed_at |-> NullTime,
     voided_at |-> NullTime, voided_by |-> NullStr,
     refunded_at |-> NullTime, refunded_by |-> NullStr, risk_score |-> 0]

\* SELECT * FROM transactions WHERE id = ?
HasTxn(id) == \E i \in 1..Len(transactions) : transactions[i].id = id
TxnPos(id) == CHOOSE i \in 1..Len(transactions) : transactions[i].id = id
Txn(id) == transactions[TxnPos(id)]

RECURSIVE SumPrices(_, _, _)
\* SELECT SUM(total_price) FROM transaction_items WHERE transaction_id = ?
SumPrices(items, id, i) ==
    IF i > Len(items) THEN 0
    ELSE (IF items[i].transaction_id = id THEN items[i].total_price ELSE 0)
         + SumPrices(items, id, i + 1)

\* The recalculation of a bill from its items, in cents: tax is 10% of the
\* subtotal rounded to the cent.
Totals(items, id) ==
    LET subtotal == SumPrices(items, id, 1)
        tax == (subtotal + 5) \div 10
    IN  [subtotal |-> subtotal, tax |-> tax, total |-> subtotal + tax]

\* getDrawerBalance(counterId, cashierId) on the table bal: the balance of the
\* counter's latest row, a row of balance 0 being inserted when it has none.
GetDrawerBalance(bal, counterId, cashierId, t) ==
    LET rows == SelectSeq(bal, LAMBDA b : b.counter_id = counterId)
    IN  IF Len(rows) > 0
          THEN [rows |-> bal, current |-> rows[Len(rows)].current_balance]
          ELSE [rows |-> Append(bal, [counter_id |-> counterId, cashier_id |-> cashierId,
                                      current_balance |-> 0, last_updated |-> t]),
                current |-> 0]

\* updateDrawerBalance(counterId, cashierId, amount, entryType, transactionId)
\* on the tables bal and ent: the two tables afterwards and the new balance.
UpdateDrawerBalance(bal, ent, counterId, cashierId, amount, entryType, transactionId, t) ==
    LET got == GetDrawerBalance(bal, counterId, cashierId, t)
        newBalance == got.current + amount
    IN  [balance |-> [i \in 1..Len(got.rows) |->
                        IF got.rows[i].counter_id = counterId
                          THEN [got.rows[i] EXCEPT !.current_balance = newBalance,
                                                   !.cashier_id = cashierId,
                                                   !.last_updated = t]
                          ELSE got.rows[i]],
         entries |-> Append(ent, [counter_id |-> counterId, cashier_id |-> cashierId,
                                  transaction_id |-> transactionId,
                                  entry_type |-> entryType, amount |-> amount,
                                  balance_after |-> newBalance, timestamp |-> t]),
         newBalance |-> newBalance]

\* The row INSERT INTO alerts writes.
NewAlert(id, source, severity, cashierId, counterId, transactionId, cameraEventId, riskScore, t) ==
    [id |-> id, source |-> source, severity |-> severity, cashier_id |-> cashierId,
     counter_id |-> counterId, transaction_id |-> transactionId,
     camera_event_id |-> cameraEventId, risk_score |-> riskScore,
     acknowledged |-> 0, acknowledged_by |-> NullStr,
     created_at |-> t]

\* The row INSERT INTO camera_events writes.
NewCameraEvent(id, eventType, cashierId, counterId, confidence, riskScore, t) ==
    [id |-> id, event_type |-> eventType, cashier_id |-> cashierId,
     counter_id |-> counterId, confidence |-> confidence, risk_score |-> riskScore,
     timestamp |-> t]

\* JSON.stringify of the details objects the handlers pass to appendLog
\* (amounts in cents).
DetailsCreated(counterId) == "{\"status\":\"open\",\"counter\":\"" \o counterId \o "\"}"
DetailsItemAdded(p, qty) ==
    "{\"product_name\":\"" \o p \o "\",\"quantity\":" \o ToString(qty)
        \o ",\"unit_price\":" \o ToString(ProductPrice(p)) \o "}"
DetailsItemRemoved(p) == "{\"product_name\":\"" \o p \o "\"}"
DetailsCashPayment(cash, change, total, balance) ==
    "{\"cash_received\":" \o ToString(cash) \o ",\"change_given\":" \o ToString(change)
        \o ",\"total\":" \o ToString(total) \o ",\"drawer_balance\":" \o ToString(balance)
        \o ",\"customer_verified\":true}"
DetailsCompleted(method) == "{\"payment_method\":\"" \o method \o "\"}"
DetailsDrawerOpened(counterId) ==
    "{\"reason\":\"cash_payment\",\"counter\":\"" \o counterId \o "\"}"
DetailsVoided == "{\"reason\":\"No reason\"}"
DetailsRefunded(total) == "{\"reason\":\"No reason\",\"amount\":" \o ToString(total) \o "}"

----------------------------------------------------------------------------
(* The API: routes/pos.js, routes/camera.js, routes/alerts.js and             *)
(* routes/anomalies.js, each handler one action.  better-sqlite3 is           *)
(* synchronous and, but for one await-free async handler, so are the          *)
(* handlers: a request runs from its first statement to its response.         *)

MaxTransactions == 1     \* bills created
MaxLog == 5              \* audit rows appended
MaxCameraEvents == 1     \* camera events ingested or written by /drawer/forced
MaxTicks == 1            \* clock advances
TickStep == 90           \* seconds per clock advance

\* The users whose requests are explored: a cashier and the administrator.
Actors == {"cashier1", "admin"}

\* The transaction ids the requests name: every bill and one that does not exist.
TxnIdsTried == {transactions[i].id : i \in 1..Len(transactions)} \cup {"t0"}
\* quantity in the body of an add-item request; 0 stands for an absent one.
Quantities == {0}
\* cash_received in the body of a cash payment, for a bill of the given total:
\* not a number, one cent short, and a hundred cents over.
CashInputs(total) ==
    {[nan |-> TRUE, value |-> 0]}
        \cup {[nan |-> FALSE, value |-> v] : v \in {total - 1, total + 100}}
\* hours in the query of a scan; 0 stands for an absent or unparsable one.
HoursInputs == {0, 1}

\* The bodies posted to /api/camera/events.  An absent cashier_id or counter_id
\* is NullStr, an absent confidence or risk_score is 0.
CameraBodies ==
    { [event_type |-> "customer_present", cashier_id |-> "cashier1",
       counter_id |-> CounterOf("cashier1"), confidence |-> Conf(90), risk_score |-> 0],
      [event_type |-> "drawer_opened_no_pos", cashier_id |-> "cashier1",
       counter_id |-> CounterOf("cashier1"), confidence |-> Conf(-100), risk_score |-> 40],
      [event_type |-> "hand_to_pocket", cashier_id |-> NullStr,
       counter_id |-> NullStr, confidence |-> 0, risk_score |-> 0],
      [event_type |-> "suspicious_gesture", cashier_id |-> "cashier1",
       counter_id |-> CounterOf("cashier1"), confidence |-> Conf(250), risk_score |-> 25],
      [event_type |-> "currency_anomaly", cashier_id |-> "cashier1",
       counter_id |-> CounterOf("cashier1"), confidence |-> Conf(90), risk_score |-> 40] }

\* CHECK(event_type IN (...)) of camera_events.
CameraEventTypes ==
    {"hand_to_pocket", "hand_hovering_drawer", "drawer_opened_no_pos",
     "drawer_forced_open", "suspicious_gesture", "normal", "customer_present",
     "no_customer"}

\* The event types POST /api/camera/events raises an alert for.
SuspiciousTypes ==
    {"hand_to_pocket", "drawer_forced_open", "drawer_opened_no_pos",
     "suspicious_gesture", "currency_anomaly"}

Reply(op, status) == [op |-> op, status |-> status]

\* A request answered with an error body and without a write.  The bodies of
\* authorize() and of the handlers' early returns do not name the route.
Rejected(status, error) ==
    /\ resp' = [op |-> "rejected", status |-> status, error |-> error]
    /\ UNCHANGED <<log, seq, store, atk, arg, now>>

\* authorize(...roles) answering a user of another role.
Forbidden(roles) == Rejected(403, "Insufficient permissions, required: " \o roles)

InitApi ==
    /\ log = <<>>
    /\ seq = 0
    /\ StoreSeeded
    /\ atk = <<>>
    /\ arg = <<>>
    /\ now = T0
    /\ resp = NoResp

\* POST /api/pos/transactions
PostTransaction ==
    \E u \in Actors :
        /\ Len(transactions) < MaxTransactions
        /\ seq < MaxLog
        /\ LET id == RowId("t", Len(transactions) + 1)
               counterId == CounterOf(u)
           IN  /\ transactions' = Append(transactions, NewTransaction(id, u, counterId, now))
               /\ log' = AppendLog(log, seq, id, "created", u, DetailsCreated(counterId), now)
               /\ resp' = [op |-> "create", status |-> 201, id |-> id]
        /\ seq' = seq + 1
        /\ UNCHANGED <<transaction_items, drawer_balance, drawer_entries, camera_events,
                       alerts, atk, arg, now>>

\* POST /api/pos/transactions/:id/items
PostItem ==
    \E u \in Actors, id \in TxnIdsTried :
        IF Role(u) \notin {"cashier", "manager"} THEN Forbidden("cashier, manager")
        ELSE IF ~HasTxn(id) THEN Rejected(404, "Transaction not found")
        ELSE IF Txn(id).status # "open" THEN Rejected(400, "Transaction is not open")
        ELSE IF Role(u) = "cashier" /\ Txn(id).cashier_id # u THEN Rejected(403, "Cannot modify another cashier's transaction")
        ELSE \E p \in Products \cup {"no-such-product"} :
            IF p \notin Products THEN Rejected(404, "Product not found")
            ELSE \E quantity \in Quantities :
                LET qty == IF quantity # 0 THEN quantity ELSE 1
                    item == [id |-> RowId("i", seq + 1), transaction_id |-> id,
                             product_id |-> p, quantity |-> qty,
                             unit_price |-> ProductPrice(p),
                             total_price |-> ProductPrice(p) * qty]
                    items == Append(transaction_items, item)
                    sums == Totals(items, id)
                IN  /\ seq < MaxLog
                    /\ transaction_items' = items
                    /\ transactions' = [transactions EXCEPT ![TxnPos(id)] =
                                           [@ EXCEPT !.subtotal = sums.subtotal,
                                                     !.tax = sums.tax, !.total = sums.total]]
                    /\ log' = AppendLog(log, seq, id, "item_added", u,
                                        DetailsItemAdded(p, qty), now)
                    /\ seq' = seq + 1
                    /\ resp' = [op |-> "add-item", status |-> 200, id |-> id]
                    /\ UNCHANGED <<drawer_balance, drawer_entries, camera_events, alerts,
                                   atk, arg, now>>

\* DELETE /api/pos/transactions/:id/items/:itemId
DeleteItem ==
    \E u \in Actors, id \in TxnIdsTried :
        IF Role(u) \notin {"cashier", "manager"} THEN Forbidden("cashier, manager")
        ELSE IF ~HasTxn(id) THEN Rejected(404, "Transaction not found")
        ELSE IF Txn(id).status # "open" THEN Rejected(400, "Transaction is not open")
        ELSE \E itemId \in {transaction_items[i].id : i \in 1..Len(transaction_items)}
                              \cup {"i0"} :
            LET found == SelectSeq(transaction_items,
                                   LAMBDA x : x.id = itemId /\ x.transaction_id = id)
            IN  IF Len(found) = 0 THEN Rejected(404, "Item not found")
                ELSE
                    LET items == SelectSeq(transaction_items, LAMBDA x : x.id # itemId)
                        sums == Totals(items, id)
                    IN  /\ seq < MaxLog
                        /\ transaction_items' = items
                        /\ transactions' = [transactions EXCEPT ![TxnPos(id)] =
                                               [@ EXCEPT !.subtotal = sums.subtotal,
                                                         !.tax = sums.tax,
                                                         !.total = sums.total]]
                        /\ log' = AppendLog(log, seq, id, "item_removed", u,
                                            DetailsItemRemoved(found[1].product_id), now)
                        /\ seq' = seq + 1
                        /\ resp' = [op |-> "remove-item", status |-> 200, id |-> id]
                        /\ UNCHANGED <<drawer_balance, drawer_entries, camera_events,
                                       alerts, atk, arg, now>>

\* POST /api/pos/transactions/:id/cash-payment
CashPayment ==
    \E u \in Actors, id \in TxnIdsTried :
        IF Role(u) \notin {"cashier", "manager"} THEN Forbidden("cashier, manager")
        ELSE IF ~HasTxn(id) THEN Rejected(404, "Transaction not found")
        ELSE IF Txn(id).status # "open" THEN Rejected(400, "Transaction is not open")
        ELSE IF Txn(id).total <= 0 THEN Rejected(400, "No items in transaction")
        ELSE \E cash \in CashInputs(Txn(id).total), customer_verified \in BOOLEAN :
        IF cash.nan THEN Rejected(400, "cash_received must be a number")
        ELSE IF cash.value < Txn(id).total THEN Rejected(400, "Insufficient cash")
        ELSE IF ~customer_verified THEN Rejected(403, "Customer presence not verified")
        ELSE
            LET txn == Txn(id)
                changeAmount == cash.value - txn.total
                counterId == txn.counter_id
                cashIn == UpdateDrawerBalance(drawer_balance, drawer_entries, counterId, u,
                                              cash.value, "cash_in", id, now)
                changeOut == UpdateDrawerBalance(cashIn.balance, cashIn.entries, counterId, u,
                                                 0 - changeAmount, "change_out", id, now)
                log1 == AppendLog(log, seq, id, "cash_payment", u,
                                  DetailsCashPayment(cash.value, changeAmount, txn.total,
                                                     changeOut.newBalance), now)
                log2 == AppendLog(log1, seq + 1, id, "completed", u,
                                  DetailsCompleted("cash"), now)
                log3 == AppendLog(log2, seq + 2, id, "drawer_opened", u,
                                  DetailsDrawerOpened(counterId), now)
            IN  /\ seq + 3 <= MaxLog
                /\ transactions' = [transactions EXCEPT ![TxnPos(id)] =
                                       [@ EXCEPT !.status = "completed",
                                                 !.payment_method = "cash",
                                                 !.cash_received = cash.value,
                                                 !.change_given = changeAmount,
                                                 !.customer_verified = 1,
                                                 !.completed_at = now]]
                /\ drawer_balance' = changeOut.balance
                /\ drawer_entries' = changeOut.entries
                /\ log' = log3
                /\ seq' = seq + 3
                /\ resp' = [op |-> "cash-payment", status |-> 200, id |-> id]
                /\ UNCHANGED <<transaction_items, camera_events, alerts, atk, arg, now>>

\* POST /api/pos/transactions/:id/online-payment
OnlinePayment ==
    \E u \in Actors, id \in TxnIdsTried :
        IF Role(u) \notin {"cashier", "manager"} THEN Forbidden("cashier, manager")
        ELSE IF ~HasTxn(id) THEN Rejected(404, "Transaction not found")
        ELSE IF Txn(id).status # "open" THEN Rejected(400, "Transaction is not open")
        ELSE IF Txn(id).total <= 0 THEN Rejected(400, "No items in transaction")
        ELSE
            /\ seq < MaxLog
            /\ transactions' = [transactions EXCEPT ![TxnPos(id)] =
                                   [@ EXCEPT !.status = "completed",
                                             !.payment_method = "online",
                                             !.completed_at = now]]
            /\ log' = AppendLog(log, seq, id, "completed", u, DetailsCompleted("online"), now)
            /\ seq' = seq + 1
            /\ resp' = [op |-> "online-payment", status |-> 200, id |-> id]
            /\ UNCHANGED <<transaction_items, drawer_balance, drawer_entries,
                           camera_events, alerts, atk, arg, now>>

\* POST /api/pos/drawer/forced, the body naming no counter and no cashier
DrawerForced ==
    \E u \in Actors :
        /\ Len(camera_events) < MaxCameraEvents
        /\ alerts' = Append(alerts,
                        NewAlert(RowId("a", Len(alerts) + 1), "drawer", "critical", u,
                                 CounterOf(u), NullStr, NullStr, 90, now))
        /\ camera_events' = Append(camera_events,
                               NewCameraEvent(RowId("e", Len(camera_events) + 1),
                                              "drawer_forced_open", u, CounterOf(u),
                                              Conf(95), 50, now))
        /\ resp' = Reply("drawer-forced", 201)
        /\ UNCHANGED <<log, seq, transactions, transaction_items, drawer_balance,
                       drawer_entries, atk, arg, now>>

\* POST /api/pos/transactions/:id/void, the body naming no reason
VoidTransaction ==
    \E u \in Actors, id \in TxnIdsTried :
        IF Role(u) \notin {"manager", "admin"} THEN Forbidden("manager, admin")
        ELSE IF ~HasTxn(id) THEN Rejected(404, "Transaction not found")
        ELSE IF Txn(id).status = "voided" THEN Rejected(400, "Already voided")
        ELSE
            /\ seq < MaxLog
            /\ transactions' = [transactions EXCEPT ![TxnPos(id)] =
                                   [@ EXCEPT !.status = "voided", !.voided_at = now,
                                             !.voided_by = u,
                                             !.risk_score = Min(100, @ + 20)]]
            /\ log' = AppendLog(log, seq, id, "voided", u, DetailsVoided, now)
            /\ seq' = seq + 1
            /\ alerts' = Append(alerts,
                            NewAlert(RowId("a", Len(alerts) + 1), "pos", "medium",
                                     Txn(id).cashier_id, DefaultCounter, id, NullStr,
                                     20, now))
            /\ resp' = [op |-> "void", status |-> 200, id |-> id]
            /\ UNCHANGED <<transaction_items, drawer_balance, drawer_entries,
                           camera_events, atk, arg, now>>

\* POST /api/pos/transactions/:id/refund, the body naming no reason
\* A refund that accepts every bill not yet refunded.
RefundableAny(status) == status # "refunded"

\* txn.status !== 'completed' refuses the refund.
Refundable(status) == status = "completed"

RefundTransaction ==
    \E u \in Actors, id \in TxnIdsTried :
        IF Role(u) \notin {"manager", "admin"} THEN Forbidden("manager, admin")
        ELSE IF ~HasTxn(id) THEN Rejected(404, "Transaction not found")
        ELSE IF ~Refundable(Txn(id).status)
          THEN Rejected(400, "Only completed transactions can be refunded")
        ELSE
            /\ seq < MaxLog
            /\ transactions' = [transactions EXCEPT ![TxnPos(id)] =
                                   [@ EXCEPT !.status = "refunded", !.refunded_at = now,
                                             !.refunded_by = u,
                                             !.risk_score = Min(100, @ + 10)]]
            /\ log' = AppendLog(log, seq, id, "refunded", u,
                                DetailsRefunded(Txn(id).total), now)
            /\ seq' = seq + 1
            /\ resp' = [op |-> "refund", status |-> 200, id |-> id]
            /\ UNCHANGED <<transaction_items, drawer_balance, drawer_entries,
                           camera_events, alerts, atk, arg, now>>

\* POST /api/camera/events (no authentication).  An event_type outside the
\* column's CHECK list fails the first INSERT: the handler answers 500.
PostCameraEvent ==
    \E body \in CameraBodies :
        IF body.event_type \notin CameraEventTypes
          THEN Rejected(500, "CHECK constraint failed")
        ELSE
            LET id == RowId("e", Len(camera_events) + 1)
                counterId == IF body.counter_id # NullStr THEN body.counter_id
                             ELSE DefaultCounter
                severity == IF body.risk_score >= 40 THEN "critical"
                            ELSE IF body.risk_score >= 25 THEN "high" ELSE "medium"
            IN  /\ Len(camera_events) < MaxCameraEvents
                /\ camera_events' = Append(camera_events,
                       NewCameraEvent(id, body.event_type, body.cashier_id, counterId,
                                      IF body.confidence # 0 THEN body.confidence
                                      ELSE Conf(50),
                                      body.risk_score, now))
                /\ alerts' = IF body.event_type \in SuspiciousTypes
                               THEN Append(alerts,
                                      NewAlert(RowId("a", Len(alerts) + 1), "camera",
                                               severity, body.cashier_id, counterId,
                                               NullStr, id, body.risk_score, now))
                               ELSE alerts
                /\ resp' = [op |-> "camera-event", status |-> 201, id |-> id]
                /\ UNCHANGED <<log, seq, transactions, transaction_items, drawer_balance,
                               drawer_entries, atk, arg, now>>

\* POST /api/alerts/:id/acknowledge
AcknowledgeAlert ==
    \E u \in Actors, id \in {alerts[i].id : i \in 1..Len(alerts)} \cup {"a0"} :
        IF Role(u) \notin {"manager", "admin"} THEN Forbidden("manager, admin")
        ELSE
            /\ alerts' = [i \in 1..Len(alerts) |->
                            IF alerts[i].id = id
                              THEN [alerts[i] EXCEPT !.acknowledged = 1,
                                                     !.acknowledged_by = u]
                              ELSE alerts[i]]
            /\ resp' = Reply("acknowledge", 200)
            /\ UNCHANGED <<log, seq, transactions, transaction_items, drawer_balance,
                           drawer_entries, camera_events, atk, arg, now>>

\* GET /api/pos/verify-chain
VerifyChainRoute ==
    /\ resp' = [op |-> "verify-chain", total_entries |-> Len(log),
                result |-> VerifyChain(log)]
    /\ UNCHANGED <<log, seq, atk, arg, now, store>>

\* GET /api/anomalies/integrity
AnomalyIntegrity ==
    /\ resp' = [op |-> "integrity", result |-> IntegrityReport(log)]
    /\ UNCHANGED <<log, seq, atk, arg, now, store>>

\* GET /api/anomalies/scan?hours=h : engine.fullScan(parseInt(hours) || 24), an
\* exception answered with status 500.
AnomalyScan ==
    \E hours \in HoursInputs :
        LET hoursBack == IF hours # 0 THEN hours ELSE 24
        IN  \E idGaps \in IdGapQuery(log),
               outOfOrder \in OutOfOrderQuery(now - hoursBack * Hour) :
                LET result == FullScan(hoursBack, idGaps, outOfOrder, now)
                IN  /\ resp' = [op |-> "scan",
                                status |-> IF result.threw THEN 500 ELSE 200,
                                result |-> result]
                    /\ UNCHANGED <<log, seq, atk, arg, now, store>>

\* The clock advances.
Tick ==
    /\ now < T0 + MaxTicks * TickStep
    /\ now' = now + TickStep
    /\ resp' = NoResp
    /\ UNCHANGED <<log, seq, atk, arg, store>>

Next ==
    \/ PostTransaction
    \/ PostItem
    \/ DeleteItem
    \/ CashPayment
    \/ OnlinePayment
    \/ DrawerForced
    \/ VoidTransaction
    \/ RefundTransaction
    \/ PostCameraEvent
    \/ AcknowledgeAlert
    \/ VerifyChainRoute
    \/ AnomalyIntegrity
    \/ AnomalyScan
    \/ Tick

Spec == InitApi /\ [][Next]_vars

----------------------------------------------------------------------------
(* Claims about the API (Spec) *)

\* C3: after any sequence of POS writes the first log entry has prev_hash null,
\* every later entry's prev_hash is the stored hash of the entry of the next
\* lower id, every entry's hash is generateHash(entry, prev_hash), and
\* verifyChain over the log in id order returns {valid: true, brokenAt: null};
\* the empty log is valid too.
C3_ChainValidOnWritePath ==
    /\ Len(log) > 0 => log[1].prev_hash = NullHash
    /\ \A i \in 2..Len(log) : /\ log[i].id > log[i - 1].id
                              /\ log[i].prev_hash = log[i - 1].hash
    /\ \A i \in 1..Len(log) : log[i].hash = GenerateHash(log[i], log[i].prev_hash)
    /\ VerifyChain(log) = ChainValid

\* C3 witness: a bill was created, given an item and paid in cash, the payment
\* having appended three rows; the log of five rows verifies.
C3_Witness ==
    /\ resp.op = "cash-payment"
    /\ [i \in 1..Len(log) |-> log[i].action]
          = <<"created", "item_added", "cash_payment", "completed", "drawer_opened">>
    /\ VerifyChain(log) = ChainValid

\* C4: no step of the API (POS writes, camera ingestion, alert acknowledgement,
\* scans, integrity reports) updates or deletes a log row: the log before a
\* step is a prefix, same ids and same field values, of the log after it.
C4_AppendOnly ==
    [][/\ Len(log') >= Len(log)
       /\ SubSeq(log', 1, Len(log)) = log]_vars

\* C4 witness: with rows in the log, a camera event was ingested, its alert was
\* acknowledged and a scan has run.
C4_Witness ==
    /\ resp.op = "scan"
    /\ Len(log) >= 3
    /\ Len(camera_events) > 0
    /\ \E i \in 1..Len(alerts) : alerts[i].acknowledged = 1

\* C8: the prosecution_score of a scan equals min(100, round(sum over the
\* findings of confidence x risk_weight)) and lies in [0,100], also when camera
\* events were ingested with a confidence outside [0,1].
C8_ScoreInRange ==
    (resp.op = "scan" /\ ~resp.result.threw) =>
        /\ resp.result.prosecution_score
              = Min(100, Round(TotalScore(resp.result.anomalies, 1)))
        /\ resp.result.prosecution_score >= 0
        /\ resp.result.prosecution_score <= 100

\* The part of C8 the code keeps: the score is min(100, round(sum)), never
\* above 100.
C8_ScoreAtMost100 ==
    (resp.op = "scan" /\ ~resp.result.threw) =>
        /\ resp.result.prosecution_score
              = Min(100, Round(TotalScore(resp.result.anomalies, 1)))
        /\ resp.result.prosecution_score <= 100

\* A scan of the last 24 hours in the current state (the log of the API has no
\* more matches than the LIMITs of its queries).
ScanNow ==
    FullScan(24, SortPairs(IdGapMatches(log)), SortSet(OutOfOrderMatches(now - 24 * Hour)),
             now)

\* The findings of a report as a set.
FindingSet(r) == {r.anomalies[i] : i \in 1..Len(r.anomalies)}

\* C9: when the findings of a scan after a step are those of a scan before it
\* and one more, the prosecution_score after is not below the one before.
C9_ScoreMonotone ==
    [][(/\ ~ScanNow.threw
        /\ ~ScanNow'.threw
        /\ FindingSet(ScanNow) \subseteq FindingSet(ScanNow')
        /\ Cardinality(FindingSet(ScanNow') \ FindingSet(ScanNow)) = 1
        /\ Len(ScanNow'.anomalies) = Len(ScanNow.anomalies) + 1)
          => ScanNow'.prosecution_score >= ScanNow.prosecution_score]_vars

\* A second call fullScan(h) at clock reading t on the store as it is (the log
\* of the API has no more matches than the LIMITs of its queries).
ScanAgain(h, t) ==
    FullScan(h, SortPairs(IdGapMatches(log)), SortSet(OutOfOrderMatches(t - h * Hour)), t)

\* C11: after a scan has answered, a second fullScan with the same hours and no
\* write in between returns the identical report, field by field, whether the
\* clock has stood still or has advanced by a second.
C11_ScanIdempotent ==
    (resp.op = "scan" /\ ~resp.result.threw) =>
        \A d \in {0, 1} : ScanAgain(resp.result.period_hours, now + d) = resp.result

\* What the code keeps of C11: a second call at the same clock reading returns
\* the identical report.
C11_SameInstantIdentical ==
    (resp.op = "scan" /\ ~resp.result.threw) =>
        ScanAgain(resp.result.period_hours, now) = resp.result

\* C13: every finding of a scan report has a confidence in [0,1], whatever
\* confidence the camera events were ingested with.
C13_ConfidenceInUnitInterval ==
    (resp.op = "scan" /\ ~resp.result.threw) =>
        \A i \in 1..Len(resp.result.anomalies) :
            /\ resp.result.anomalies[i].confidence >= 0
            /\ resp.result.anomalies[i].confidence <= Conf(100)

\* What the code does instead: the findings of detector 6 without a matching
\* sale carry the camera event's confidence as stored, those of detector 8
\* about a camera event carry nine tenths of it, all others a confidence
\* in [0,1].
C13_CameraConfidenceCopied ==
    (resp.op = "scan" /\ ~resp.result.threw) =>
        \A i \in 1..Len(resp.result.anomalies) :
            LET f == resp.result.anomalies[i]
                Stored == {camera_events[j].confidence : j \in 1..Len(camera_events)}
            IN  CASE f.kind = "drawer_no_txn" ->
                        f.confidence = Conf(50) \/ f.confidence \in Stored
                  [] f.kind = "camera_only" ->
                        \E c \in Stored : f.confidence = (c * 9) \div 10
                  [] OTHER -> f.confidence >= 0 /\ f.confidence <= Conf(100)

\* A scan has reported a detector 8 finding of confidence above 1.
C13_AboveOne ==
    /\ resp.op = "scan"
    /\ ~resp.result.threw
    /\ \E i \in 1..Len(resp.result.anomalies) :
          /\ resp.result.anomalies[i].kind = "camera_only"
          /\ resp.result.anomalies[i].confidence > Conf(100)

----------------------------------------------------------------------------
(* The log under a party with direct access to the database.  The engine    *)
(* "treats the POS log as an UNTRUSTED input": rows are appended by          *)
(* appendLog, and a row may then be changed or removed behind the API.       *)

MaxTamperLog == 3      \* rows appended
MaxTampers == 2        \* changes and removals made behind the API
MaxTamperTicks == 1    \* clock advances, 45 minutes each

TamperStep == 45 * Minute

DetailsOpen == "{\"status\":\"open\"}"
ForgedHash == <<"t9", "created", "u9", NullStr, 0, NullHash>>

Fields == {"transaction_id", "action", "performed_by", "details", "timestamp",
           "prev_hash", "hash"}

\* The values a changed field may take.
FieldValues(f) ==
    CASE f = "transaction_id" -> {"t1", "t2"}
      [] f = "action"         -> {"created", "voided"}
      [] f = "performed_by"   -> {"cashier1", "manager1"}
      [] f = "details"        -> {DetailsOpen, "{}", "not-json", NullStr}
      [] f = "timestamp"      -> {T0, T0 + TamperStep, T0 - Minute}
      [] f = "prev_hash"      -> {NullHash, ForgedHash} \cup {log[i].hash : i \in 1..Len(log)}
      [] f = "hash"           -> {ForgedHash} \cup {log[i].hash : i \in 1..Len(log)}

InitTamper ==
    /\ log = <<>>
    /\ seq = 0
    /\ atk = <<>>
    /\ arg = <<>>
    /\ now = T0
    /\ resp = NoResp
    /\ StoreSeeded

\* A POS write appends one row.
TAppend ==
    /\ seq < MaxTamperLog
    /\ \E action \in {"created", "voided"} :
          log' = AppendLog(log, seq, "t1", action, "cashier1", DetailsOpen, now)
    /\ seq' = seq + 1
    /\ resp' = [op |-> "append"]
    /\ UNCHANGED <<atk, arg, now, store>>

TTick ==
    /\ now < T0 + MaxTamperTicks * TamperStep
    /\ now' = now + TamperStep
    /\ resp' = NoResp
    /\ UNCHANGED <<log, seq, atk, arg, store>>

\* UPDATE transaction_log SET f = v WHERE id = log[k].id, with f one of fields
\* and v another value.
TamperFieldIn(fields) ==
    /\ Len(atk) < MaxTampers
    /\ \E k \in 1..Len(log), f \in fields :
         \E v \in FieldValues(f) :
            /\ v # log[k][f]
            /\ log' = [log EXCEPT ![k][f] = v]
            /\ atk' = Append(atk, [kind |-> "field", id |-> log[k].id, field |-> f])
    /\ resp' = NoResp
    /\ UNCHANGED <<seq, arg, now, store>>

TamperField == TamperFieldIn(Fields)

\* DELETE FROM transaction_log WHERE id = log[k].id
DeleteEntry ==
    /\ Len(atk) < MaxTampers
    /\ \E k \in 1..Len(log) :
            /\ log' = SubSeq(log, 1, k - 1) \o SubSeq(log, k + 1, Len(log))
            /\ atk' = Append(atk, [kind |-> "delete", id |-> log[k].id, field |-> "row"])
    /\ resp' = NoResp
    /\ UNCHANGED <<seq, arg, now, store>>

\* AnomalyEngine.detectLogTampering()
RunDetectLogTampering ==
    /\ \E q \in IdGapQuery(log) :
          resp' = [op |-> "detectLogTampering", result |-> DetectLogTampering(log, q, now)]
    /\ UNCHANGED <<log, seq, atk, arg, now, store>>

NextTamper ==
    \/ TAppend
    \/ TTick
    \/ TamperField
    \/ DeleteEntry
    \/ VerifyChainRoute
    \/ RunDetectLogTampering

SpecTamper == InitTamper /\ [][NextTamper]_vars

----------------------------------------------------------------------------
(* Claims about the hash chain under tampering (SpecTamper) *)

\* Entry i of logs fails one of verifyChain's two comparisons against the stored
\* hash of the entry before it.
FailsAt(logs, i) ==
    LET prevHash == IF i > 1 THEN logs[i - 1].hash ELSE NullHash
    IN  \/ logs[i].hash # GenerateHash(logs[i], prevHash)
        \/ logs[i].prev_hash # prevHash

\* C1: after rows were written by appendLog and exactly one field of one row k was
\* changed to another value, with nothing else changed or removed, verifyChain
\* returns valid = false and brokenAt = k's id.
C1_TamperDetected ==
    (resp.op = "verify-chain" /\ Len(atk) = 1 /\ atk[1].kind = "field")
        => /\ ~resp.result.threw
           /\ ~resp.result.valid
           /\ resp.result.brokenAt = atk[1].id

\* C1 witness: the details of the second of three rows were changed and the
\* verification has reported the break at that row.
C1_Witness ==
    /\ resp.op = "verify-chain"
    /\ Len(log) = 3
    /\ atk = <<[kind |-> "field", id |-> 2, field |-> "details"]>>
    /\ resp.result.brokenAt = 2

\* C2: after rows were written by appendLog and exactly one row was removed,
\* verifyChain over the remaining rows returns valid = false or detector 5
\* reports at least one finding.
C2_RemovalDetected ==
    (resp.op = "detectLogTampering" /\ Len(atk) = 1 /\ atk[1].kind = "delete")
        => \/ ~VerifyChain(log).valid
           \/ Len(resp.result.items) > 0

\* C5: verifyChain reports the lowest-positioned entry that fails either
\* comparison, and reports valid exactly when none fails.
C5_FirstBreakReported ==
    resp.op = "verify-chain" =>
        LET failing == {i \in 1..Len(log) : FailsAt(log, i)}
        IN  IF failing = {}
              THEN resp.result = ChainValid
              ELSE /\ ~resp.result.valid
                   /\ \E i \in failing :
                        /\ \A j \in failing : i <= j
                        /\ resp.result.brokenAt = log[i].id

\* C5 witness: two rows fail, the earlier one only by its prev_hash field (its
\* stored hash still matches the recomputed one), and it is the one reported.
C5_Witness ==
    /\ resp.op = "verify-chain"
    /\ Len(log) = 3
    /\ FailsAt(log, 2) /\ FailsAt(log, 3) /\ ~FailsAt(log, 1)
    /\ log[2].hash = GenerateHash(log[2], log[1].hash)
    /\ resp.result.brokenAt = log[2].id
    /\ resp.result.reason = "prev_hash mismatch"

----------------------------------------------------------------------------
(* HashChain.verifyChain called directly on an arbitrary array (SpecVerify) *)

MaxArgLen == 2    \* elements of the array handed to verifyChain

\* Two rows as appendLog writes them.
GoodRows ==
    AppendLog(AppendLog(<<>>, 0, "t1", "created", "cashier1", DetailsOpen, T0),
              1, "t1", "voided", "cashier1", DetailsOpen, T0)

\* A null or undefined array element: reading any property of it throws.
NullElement ==
    [obj |-> FALSE, id |-> UndefinedNum, transaction_id |-> UndefinedStr,
     action |-> UndefinedStr, performed_by |-> UndefinedStr, details |-> UndefinedStr,
     timestamp |-> UndefinedNum, prev_hash |-> UndefinedHash, hash |-> UndefinedHash]

\* The object {} : every property is undefined.
EmptyObject == [NullElement EXCEPT !.obj = TRUE]

\* The array elements tried: well-formed rows, rows lacking one required field,
\* the empty object and null.
ArgElements ==
    { GoodRows[1], GoodRows[2],
      [GoodRows[1] EXCEPT !.hash = UndefinedHash],
      [GoodRows[2] EXCEPT !.prev_hash = UndefinedHash],
      [GoodRows[1] EXCEPT !.details = UndefinedStr],
      [GoodRows[2] EXCEPT !.timestamp = UndefinedNum],
      EmptyObject, NullElement }

ArgLists == UNION {[1..n -> ArgElements] : n \in 0..MaxArgLen}

\* An element is malformed when it is not an object or lacks a required field.
Malformed(e) ==
    \/ ~e.obj
    \/ e.hash = UndefinedHash \/ e.prev_hash = UndefinedHash
    \/ e.details = UndefinedStr \/ e.timestamp = UndefinedNum

InitVerify ==
    /\ log = <<>>
    /\ seq = 0
    /\ atk = <<>>
    /\ arg \in ArgLists
    /\ now = T0
    /\ resp = NoResp
    /\ StoreSeeded

\* HashChain.verifyChain(arg)
CallVerifyChain ==
    /\ resp' = [op |-> "verifyChain", result |-> VerifyChain(arg)]
    /\ UNCHANGED <<log, seq, atk, arg, now, store>>

\* HashChain.generateHash(arg[i], null): on a null element the property read throws.
CallGenerateHash ==
    /\ \E i \in 1..Len(arg) :
          resp' = [op |-> "generateHash", index |-> i,
                   result |-> IF arg[i].obj
                                THEN [threw |-> FALSE, hash |-> GenerateHash(arg[i], NullHash)]
                                ELSE [threw |-> TRUE, hash |-> NullHash]]
    /\ UNCHANGED <<log, seq, atk, arg, now, store>>

NextVerify ==
    \/ CallVerifyChain
    \/ CallGenerateHash

SpecVerify == InitVerify /\ [][NextVerify]_vars

\* C6: verifyChain never throws on malformed input: whenever the array holds a
\* malformed element that the walk reaches, it returns valid = false with
\* brokenAt the id of the first element that fails, and it raises no error.
C6_NeverThrows ==
    resp.op = "verifyChain" =>
        /\ ~resp.result.threw
        /\ (\E i \in 1..Len(arg) : Malformed(arg[i])) => ~resp.result.valid

\* The part of C6 the code keeps: an array of objects, whatever fields they
\* lack, never makes verifyChain throw, and a malformed object is not accepted.
C6_ObjectsNeverThrow ==
    (resp.op = "verifyChain" /\ \A i \in 1..Len(arg) : arg[i].obj) =>
        /\ ~resp.result.threw
        /\ (\E i \in 1..Len(arg) : Malformed(arg[i])) => ~resp.result.valid

----------------------------------------------------------------------------
(* Removals from a long log (SpecGaps): enough rows for more holes than the  *)
(* id-continuity query returns.                                              *)

MaxGapLog == 23       \* rows appended before the removals

RECURSIVE Rechain(_, _)
\* The rows of l from index i on with prev_hash and hash recomputed in order, so
\* that the chain over the rows that are left verifies again.
Rechain(l, i) ==
    IF i > Len(l) THEN l
    ELSE LET prevHash == IF i > 1 THEN l[i - 1].hash ELSE NullHash
             row == [l[i] EXCEPT !.prev_hash = prevHash,
                                 !.hash = GenerateHash(l[i], prevHash)]
         IN  Rechain([l EXCEPT ![i] = row], i + 1)

RECURSIVE AppendedLog(_)
\* The log after n successive appendLog calls on the empty table.
AppendedLog(n) ==
    IF n = 0 THEN <<>>
    ELSE AppendLog(AppendedLog(n - 1), n - 1, "t1", "item_added", "cashier1", DetailsOpen, T0)

\* The ids handed out so far that are no longer in the log.
RemovedIds == (1..seq) \ {log[i].id : i \in 1..Len(log)}

\* The table holds the rows of n appends.
InitGaps ==
    /\ \E n \in 0..MaxGapLog : log = AppendedLog(n) /\ seq = n
    /\ atk = <<>>
    /\ arg = <<>>
    /\ now = T0
    /\ resp = NoResp
    /\ StoreSeeded

\* DELETE FROM transaction_log WHERE id = log[k].id.  The removals explored are
\* those of rows of even id, before any recomputation of the chain.
GDelete ==
    /\ atk = <<>>
    /\ \E k \in 1..Len(log) :
          /\ log[k].id % 2 = 0
          /\ log' = SubSeq(log, 1, k - 1) \o SubSeq(log, k + 1, Len(log))
    /\ resp' = NoResp
    /\ UNCHANGED <<seq, atk, arg, now, store>>

\* The remover recomputes the chain over the rows that are left.
GRechain ==
    /\ atk = <<>>
    /\ RemovedIds # {}
    /\ log' = Rechain(log, 1)
    /\ atk' = <<[kind |-> "rechain", id |-> 0, field |-> "hash"]>>
    /\ resp' = NoResp
    /\ UNCHANGED <<seq, arg, now, store>>

NextGaps ==
    \/ GDelete
    \/ GRechain
    \/ RunDetectLogTampering

SpecGaps == InitGaps /\ [][NextGaps]_vars

\* The ids h missing from the log with h - 1 and h + 1 present.
Holes(logs) ==
    LET ids == {logs[i].id : i \in 1..Len(logs)}
    IN  {h \in 1..seq : h \notin ids /\ (h - 1) \in ids /\ (h + 1) \in ids}

\* The id-gap findings of a detector 5 result.
IdGapFindings(r) == SelectSeq(r.items, LAMBDA f : f.kind = "id_gap")

C7_WitnessBroken ==
    /\ resp.op = "detectLogTampering"
    /\ Cardinality(Holes(log)) = 2
    /\ ~VerifyChain(log).valid
    /\ Len(IdGapFindings(resp.result)) = 2

----------------------------------------------------------------------------
(* A scan over a log that was changed behind the API (SpecUntrusted): a cash  *)
(* sale through the handlers, then changes to the action or details text of  *)
(* log rows.                                                                  *)

TamperLogText == TamperFieldIn({"action", "details"})

NextUntrusted ==
    \/ PostTransaction
    \/ PostItem
    \/ CashPayment
    \/ TamperLogText
    \/ AnomalyScan

SpecUntrusted == InitApi /\ [][NextUntrusted]_vars

\* The detectors of a scan of the last 24 hours in the current state.
DetectorsNow ==
    LET since == now - 24 * Hour
    IN  << DetectUnauthorizedDrawerOpen(since),
           DetectPhantomTransactions(since),
           DetectVoidRefundCover(since),
           DetectDiscountAbuse(since),
           DetectLogTampering(log, SortPairs(IdGapMatches(log)), now),
           DetectDrawerNoTransaction(since),
           DetectTimeManipulation(since, SortSet(OutOfOrderMatches(since)), now),
           DetectCrossSourceCorrelation(since) >>

\* C10: when a detector throws during fullScan, the scan still answers with a
\* report that holds the findings of the detectors that did not throw, instead
\* of failing as a whole.
C10_DetectorIsolation ==
    (resp.op = "scan" /\ \E i \in 1..Len(DetectorsNow) : DetectorsNow[i].threw) =>
        /\ resp.status = 200
        /\ ~resp.result.threw
        /\ \A i \in 1..Len(DetectorsNow) :
              ~DetectorsNow[i].threw =>
                  \A j \in 1..Len(DetectorsNow[i].items) :
                      \E k \in 1..Len(resp.result.anomalies) :
                          resp.result.anomalies[k]
                             = [DetectorsNow[i].items[j] EXCEPT !.category = Categories[i]]

\* What the code does instead: a scan answers 200 with a report exactly when no
\* detector throws, and 500 without any finding otherwise.
C10_ScanFailsAsAWhole ==
    resp.op = "scan" =>
        IF \E i \in 1..Len(DetectorsNow) : DetectorsNow[i].threw
          THEN resp.status = 500 /\ resp.result = ScanThrown
          ELSE resp.status = 200 /\ ~resp.result.threw

\* A scan has failed on a drawer_opened row of unparsable details whose
\* cash_payment row was relabelled, while detector 5 has findings to report.
C10_ScanFailed ==
    /\ resp.op = "scan"
    /\ resp.status = 500
    /\ DetectorsNow[1].threw
    /\ ~DetectorsNow[5].threw
    /\ Len(DetectorsNow[5].items) > 0
----------------------------------------------------------------------------
(* The core called by its host (SpecCore): sales, voids, refunds and camera   *)
(* events through the handlers, and the four read entry points: fullScan,     *)
(* integrityReport, verifyChain and RiskEngine.evaluateCashier (which no      *)
(* route calls; the host calls it with the database handle).                  *)

\* periodHours of evaluateCashier: the default and a full day.
PeriodInputs == {8, 24}

\* evaluateCashier that also stores its assessment as an alert.
EvaluateCashierCallSaving ==
    \E c \in Actors, p \in PeriodInputs :
        /\ resp' = [op |-> "evaluate", result |-> EvaluateCashier(c, p, now)]
        /\ alerts' = Append(alerts,
                        NewAlert(RowId("a", Len(alerts) + 1), "combined",
                                 EvaluateCashier(c, p, now).severity, c, NullStr,
                                 NullStr, NullStr, 0, now))
        /\ UNCHANGED <<log, seq, transactions, transaction_items, drawer_balance,
                       drawer_entries, camera_events, atk, arg, now>>

\* RiskEngine.evaluateCashier(db, c, p)
EvaluateCashierCall ==
    \E c \in Actors, p \in PeriodInputs :
        /\ resp' = [op |-> "evaluate", result |-> EvaluateCashier(c, p, now)]
        /\ UNCHANGED <<log, seq, atk, arg, now, store>>

NextCore ==
    \/ PostTransaction
    \/ PostItem
    \/ OnlinePayment
    \/ VoidTransaction
    \/ RefundTransaction
    \/ PostCameraEvent
    \/ Tick
    \/ VerifyChainRoute
    \/ AnomalyIntegrity
    \/ AnomalyScan
    \/ EvaluateCashierCall

SpecCore == InitApi /\ [][NextCore]_vars

\* The answers of the four read entry points of the core.
CoreOps == {"scan", "integrity", "verify-chain", "evaluate"}

\* C12: a step that is a call of fullScan, integrityReport, verifyChain or
\* evaluateCashier leaves the audit log, the transactions and their items, the
\* drawer tables, the camera events and the alerts as they were.
C12_CoreReadOnly ==
    [][resp'.op \in CoreOps => (log' = log /\ seq' = seq /\ store' = store)]_vars

\* C12 witness: evaluateCashier has answered over a store holding a voided
\* bill and a camera event of the cashier that it counted.
C12_Witness ==
    /\ resp.op = "evaluate"
    /\ resp.result.ph_event_count > 0
    /\ Len(log) > 0
    /\ \E i \in 1..Len(transactions) : transactions[i].status = "voided"
----------------------------------------------------------------------------
(* Claims about the detectors over the core's store (SpecCore) *)

\* The bills of the scenario: completed at a time T by a single 'completed' row,
\* voided at T + 90 s, and never refunded.
ScenarioTxns ==
    {i \in 1..Len(transactions) :
        /\ transactions[i].status = "voided"
        /\ transactions[i].refunded_at = NullTime
        /\ CompletedTime(transactions[i].id) # NullTime
        /\ transactions[i].voided_at = CompletedTime(transactions[i].id) + 90}

\* A customer_present event at the counter at a time from lo to hi.
CustomerSeen(counterId, lo, hi) ==
    \E j \in 1..Len(camera_events) :
        /\ camera_events[j].event_type = "customer_present"
        /\ camera_events[j].counter_id = counterId
        /\ camera_events[j].timestamp >= lo
        /\ camera_events[j].timestamp <= hi

\* The findings of a category about a transaction, as indices of the report.
FindingsAbout(r, category, id) ==
    {k \in 1..Len(r.anomalies) : /\ r.anomalies[k].category = category
                                 /\ r.anomalies[k].transaction_id = id}

\* Exactly one finding of the category about the transaction, of confidence
\* 0.95 and severity critical.
OneCritical95(r, category, id) ==
    /\ Cardinality(FindingsAbout(r, category, id)) = 1
    /\ \A k \in FindingsAbout(r, category, id) :
          /\ r.anomalies[k].confidence = Conf(95)
          /\ r.anomalies[k].severity = "critical"

----------------------------------------------------------------------------
(* The scan window (SpecWindow): bills written through the handlers and log   *)
(* rows of the writers routes/pos.js does not contain (price edits, drawer    *)
(* openings outside a payment), at clock readings seconds and an hour apart;  *)
(* the terminal's clock can be set back.                                      *)

\* The clock readings in the order they are taken: the start, the clock set
\* back by one second, and an hour after the start.
WindowClock == <<T0, T0 - 1, T0 + Hour>>

\* The system clock is set to a later reading of WindowClock.
SetClock ==
    /\ \E i, j \in 1..Len(WindowClock) :
          /\ i < j
          /\ now = WindowClock[i]
          /\ now' = WindowClock[j]
    /\ resp' = NoResp
    /\ UNCHANGED <<log, seq, atk, arg, store>>

\* A row of one of the other writers, about an existing bill, chained as
\* appendLog chains.
OtherWriterAppend ==
    /\ seq < MaxLog
    /\ \E action \in {"price_edited", "drawer_opened"},
          u \in {"cashier1"},
          id \in {transactions[i].id : i \in 1..Len(transactions)} :
            log' = AppendLog(log, seq, id, action, u, "{}", now)
    /\ seq' = seq + 1
    /\ resp' = [op |-> "append"]
    /\ UNCHANGED <<atk, arg, now, store>>

NextWindow ==
    \/ PostTransaction
    \/ PostItem
    \/ CashPayment
    \/ OnlinePayment
    \/ VoidTransaction
    \/ OtherWriterAppend
    \/ SetClock
    \/ AnomalyScan

SpecWindow == InitApi /\ [][NextWindow]_vars

\* The lower bound of the window of a report.
SinceOf(r) == r.scan_timestamp - r.period_hours * Hour

HasFinding(r, kind, ref) ==
    \E k \in 1..Len(r.anomalies) : r.anomalies[k].kind = kind /\ r.anomalies[k].ref = ref

\* The price edits of user u at or after time since.
EditsSince(u, since) ==
    Cardinality({i \in 1..Len(log) : /\ log[i].performed_by = u
                                     /\ log[i].action = "price_edited"
                                     /\ log[i].timestamp >= since})

----------------------------------------------------------------------------
(* Claims about the risk scorer (SpecCore) *)

\* The fixed table of the physical weights; an event type outside it weighs
\* nothing.
TableWeight(eventType) ==
    IF eventType \in {"hand_to_pocket", "hand_hovering_drawer", "drawer_opened_no_pos",
                      "drawer_forced_open", "suspicious_gesture", "repeated_drawer_access"}
      THEN PhWeight(eventType) ELSE 0

RECURSIVE TableSum(_, _)
\* The sum of weight x confidence over the events from index i on.
TableSum(events, i) ==
    IF i > Len(events) THEN 0
    ELSE TableWeight(events[i].event_type) * events[i].confidence
         + TableSum(events, i + 1)

\* C16: the physical_score of evaluateCashier is min(100, sum of weight x
\* confidence over the actor's non-normal camera events at or after
\* now - periodHours) with the weights of the fixed table; benign
\* customer_present events add nothing, and the score lies in [0,100].
C16_PhysicalScore ==
    resp.op = "evaluate" =>
        LET r == resp.result
            since == now - r.period_hours * Hour
            events == SelectSeq(camera_events, LAMBDA e :
                          /\ e.cashier_id = r.cashier_id
                          /\ e.timestamp >= since
                          /\ e.event_type # "normal")
        IN  /\ r.physical_score = Min(Score100, TableSum(events, 1))
            /\ r.physical_score >= 0
            /\ r.physical_score <= Score100

\* Evaluations the code gets wrong in each of the three ways: a
\* customer_present event raising the score, a score below 0, and an event
\* inside the window left out.
C16_BenignRaises ==
    /\ resp.op = "evaluate"
    /\ resp.result.physical_score > 0
    /\ \A i \in 1..Len(camera_events) : camera_events[i].event_type = "customer_present"

C16_Negative == resp.op = "evaluate" /\ resp.result.physical_score < 0

C16_LeftOut ==
    /\ resp.op = "evaluate"
    /\ resp.result.ph_event_count = 0
    /\ \E i \in 1..Len(camera_events) :
          /\ camera_events[i].cashier_id = resp.result.cashier_id
          /\ camera_events[i].event_type # "normal"
          /\ camera_events[i].timestamp >= now - resp.result.period_hours * Hour
----------------------------------------------------------------------------
(* The scoring functions of RiskEngine called on event lists (SpecScorer):    *)
(* calculateSoftwareScore and calculatePhysicalScore, then combinedScore on   *)
(* their results, then getSeverity on the combined score.                     *)

MaxSwEvents == 5        \* voids in the list of software events
MaxCamEvents == 2       \* camera events in the list of physical events

\* Lists of software events as evaluateCashier builds them: k voids, then
\* possibly a refund.
SwEventLists ==
    {[i \in 1..k |-> [type |-> "void_transaction", confidence |-> Conf(100)]] \o tail :
        k \in 0..MaxSwEvents,
        tail \in {<<>>, <<[type |-> "refund", confidence |-> Conf(100)]>>}}

\* Camera events as the query of evaluateCashier returns them; the camera
\* route stores any confidence but 0.
CamEventRows ==
    [event_type : {"hand_to_pocket", "drawer_opened_no_pos", "drawer_forced_open",
                   "customer_present"},
     confidence : {Conf(51), Conf(95), Conf(-100), Conf(250)}]

CamEventLists ==
    UNION {[1..n -> CamEventRows] : n \in 0..MaxCamEvents}

InitScorer ==
    /\ log = <<>>
    /\ seq = 0
    /\ StoreSeeded
    /\ atk = <<>>
    /\ arg \in SwEventLists \X CamEventLists
    /\ now = T0
    /\ resp = NoResp

\* calculateSoftwareScore(swEvents) and calculatePhysicalScore(camEvents)
CallCalculateScores ==
    /\ resp = NoResp
    /\ resp' = [op |-> "scores",
                software_score |-> CalculateSoftwareScore(arg[1]),
                physical_score |-> CalculatePhysicalScore(arg[2])]
    /\ UNCHANGED <<log, seq, atk, arg, now, store>>

\* combinedScore(swScore, phScore)
CallCombinedScore ==
    /\ resp.op = "scores"
    /\ resp' = [op |-> "combined",
                software_score |-> resp.software_score,
                physical_score |-> resp.physical_score,
                combined_score |-> CombinedScore(resp.software_score, resp.physical_score)]
    /\ UNCHANGED <<log, seq, atk, arg, now, store>>

\* getSeverity(combined)
CallGetSeverity ==
    /\ resp.op = "combined"
    /\ resp' = [op |-> "severity",
                software_score |-> resp.software_score,
                physical_score |-> resp.physical_score,
                combined_score |-> resp.combined_score,
                severity |-> GetSeverity(resp.combined_score)]
    /\ UNCHANGED <<log, seq, atk, arg, now, store>>

NextScorer ==
    \/ CallCalculateScores
    \/ CallCombinedScore
    \/ CallGetSeverity

SpecScorer == InitScorer /\ [][NextScorer]_vars

\* The severity bands: label, lowest and highest score.
Bands ==
    { [label |-> "low", min |-> 0, max |-> 20],
      [label |-> "medium", min |-> 21, max |-> 50],
      [label |-> "high", min |-> 51, max |-> 80],
      [label |-> "critical", min |-> 81, max |-> 100] }

InBand(score, b) == score >= b.min * ConfScale /\ score <= b.max * ConfScale

\* C17: the combined score is round(0.45 x software + 0.55 x physical) when
\* both scores are > 0 and the greater of the two otherwise; it lies in exactly
\* one of the bands low [0,20], medium [21,50], high [51,80], critical
\* [81,100], and the severity reported is the label of that band.
C17_CombinedAndBand ==
    resp.op = "severity" =>
        /\ resp.combined_score =
              IF resp.software_score > 0 /\ resp.physical_score > 0
                THEN ConfScale * ((45 * resp.software_score + 55 * resp.physical_score
                                      + 50 * ConfScale) \div (100 * ConfScale))
                ELSE Max(resp.software_score, resp.physical_score)
        /\ Cardinality({b \in Bands : InBand(resp.combined_score, b)}) = 1
        /\ \A b \in Bands : InBand(resp.combined_score, b) => resp.severity = b.label

\* What the code keeps of C17: the combination formula, a combined score in
\* [0,100], and the label by the upper thresholds 20, 50 and 80.
C17_CombinedAndThresholds ==
    resp.op = "severity" =>
        /\ resp.combined_score =
              IF resp.software_score > 0 /\ resp.physical_score > 0
                THEN ConfScale * ((45 * resp.software_score + 55 * resp.physical_score
                                      + 50 * ConfScale) \div (100 * ConfScale))
                ELSE Max(resp.software_score, resp.physical_score)
        /\ resp.combined_score >= 0
        /\ resp.combined_score <= Score100
        /\ resp.severity =
              IF resp.combined_score <= 20 * ConfScale THEN "low"
              ELSE IF resp.combined_score <= 50 * ConfScale THEN "medium"
              ELSE IF resp.combined_score <= 80 * ConfScale THEN "high"
              ELSE "critical"
----------------------------------------------------------------------------
(* Claims about the aggregator's roll-up (SpecCore) *)

\* The order critical > high > medium > low > clear as numbers.
SeverityRank(sev) ==
    CASE sev = "critical" -> 4
      [] sev = "high"     -> 3
      [] sev = "medium"   -> 2
      [] sev = "low"      -> 1
      [] sev = "clear"    -> 0

\* The category of the detector that produces findings of a kind.
KindCategory(kind) ==
    CASE kind \in {"drawer_unmatched", "drawer_forced"}    -> "unauthorized_drawer_open"
      [] kind = "phantom"                                  -> "phantom_transaction"
      [] kind = "void_cover"                               -> "void_refund_cover"
      [] kind = "discount"                                 -> "discount_abuse"
      [] kind \in {"chain_break", "gap", "id_gap"}         -> "log_tampering"
      [] kind = "drawer_no_txn"                            -> "drawer_no_transaction"
      [] kind \in {"future", "out_of_order"}               -> "time_manipulation"
      [] kind \in {"camera_only", "pos_void_no_customer"}  -> "cross_source_correlation"
      [] OTHER                                             -> "none"

\* C18: in a scan report each of the eight categories has as count the number
\* of findings of that category, as severity the highest severity among them
\* under critical > high > medium > low, and 'clear' exactly when it has none;
\* every finding of the flattened list carries the category of the detector
\* that produced it.
C18_CategoryRollUp ==
    (resp.op = "scan" /\ ~resp.result.threw) =>
        LET r == resp.result
            Of(c) == {k \in 1..Len(r.anomalies) : r.anomalies[k].category = Categories[c]}
        IN  /\ Len(r.summary) = 8
            /\ \A c \in 1..8 :
                  /\ r.summary[c].category = Categories[c]
                  /\ r.summary[c].count = Cardinality(Of(c))
                  /\ \A k \in Of(c) :
                        SeverityRank(r.summary[c].severity)
                           >= SeverityRank(r.anomalies[k].severity)
                  /\ (Of(c) # {}) =>
                        \E k \in Of(c) : r.summary[c].severity = r.anomalies[k].severity
                  /\ (r.summary[c].severity = "clear") <=> (Of(c) = {})
            /\ \A k \in 1..Len(r.anomalies) :
                  r.anomalies[k].category = KindCategory(r.anomalies[k].kind)
            /\ r.total_anomalies = Len(r.anomalies)

\* C18 witness: a scan has rolled up a category holding a high finding listed
\* before a critical one, next to categories without findings.
C18_Witness ==
    /\ resp.op = "scan"
    /\ ~resp.result.threw
    /\ \E c \in 1..8 :
          /\ resp.result.summary[c].count = 2
          /\ resp.result.summary[c].severity = "critical"
          /\ resp.result.summary[c].items[1].severity = "high"
    /\ \E c \in 1..8 : resp.result.summary[c].severity = "clear"

\* ---------------------------------------------------------------------------
\* Detector 3 around its thresholds (SpecCover): one bill is sold and then
\* voided or refunded after a gap on either side of 2, 5 and 10 minutes, or
\* with the clock set back, and the detector runs on servers of several zones.
\* ---------------------------------------------------------------------------
CoverGaps == {0 - 1, 2 * Minute, 2 * Minute + 1, 5 * Minute, 5 * Minute + 1, 10 * Minute, 10 * Minute + 1}

\* Offsets of the server's local time from UTC, in seconds.
Zones == {0, 19800, 0 - 18000}

CoverClock ==
    /\ now = T0
    /\ \E g \in CoverGaps : now' = T0 + g
    /\ resp' = NoResp
    /\ UNCHANGED <<log, seq, atk, arg, store>>

ScanVoidRefundCover ==
    \E tz \in Zones :
        /\ resp' = [op |-> "void-refund-cover", tz |-> tz,
                    result |-> DetectVoidRefundCoverIn(tz, now - 24 * Hour)]
        /\ UNCHANGED <<log, seq, atk, arg, now, store>>

NextCover ==
    \/ PostTransaction
    \/ PostItem
    \/ OnlinePayment
    \/ VoidTransaction
    \/ RefundTransaction
    \/ CoverClock
    \/ ScanVoidRefundCover

SpecCover == InitApi /\ [][NextCover]_vars

\* The instant a bill was voided or refunded, and its gap to the completion.
ReversedAt(t) == IF t.status = "voided" THEN t.voided_at ELSE t.refunded_at
GapOf(t) == ReversedAt(t) - CompletedTime(t.id)

CoverFindings(items, id) == SelectSeq(items, LAMBDA f : f.kind = "void_cover" /\ f.ref = id)

GapRule(items, t) ==
    LET found == CoverFindings(items, t.id)
        g == GapOf(t)
        inRange == CompletedTime(t.id) # NullTime /\ g >= 0 /\ g <= 10 * Minute
    IN  /\ Len(found) = (IF inRange THEN 1 ELSE 0)
        /\ inRange =>
             /\ found[1].confidence = (IF g <= 2 * Minute THEN Conf(95)
                                       ELSE IF g <= 5 * Minute THEN Conf(80) ELSE Conf(65))
             /\ found[1].severity = (IF found[1].confidence >= Conf(80) THEN "critical"
                                     ELSE "high")

Reversed == {i \in 1..Len(transactions) : transactions[i].status \in {"voided", "refunded"}}

\* C19: a voided or refunded bill yields a finding of detector 3 exactly when
\* the gap between its completion and its void or refund lies in [0, 10]
\* minutes, with confidence 0.95 up to 2 minutes, 0.80 up to 5, 0.65 up to 10,
\* and severity critical when the confidence is at least 0.8 and high otherwise.
C19_GapRule ==
    resp.op = "void-refund-cover" =>
        \A i \in Reversed : GapRule(resp.result.items, transactions[i])

\* C19, as far as it holds: the rule for voided bills on any server, and for
\* refunded bills on a server whose local time is UTC.
C19_GapRuleVoidedOrUTC ==
    resp.op = "void-refund-cover" =>
        \A i \in Reversed :
            (transactions[i].status = "voided" \/ resp.tz = 0)
                => GapRule(resp.result.items, transactions[i])

\* C19: a refund one second inside the two-minute band, scanned off UTC.
C19_RefundOffUTC ==
    /\ resp.op = "void-refund-cover"
    /\ resp.tz # 0
    /\ \E i \in Reversed : /\ transactions[i].status = "refunded"
                           /\ GapOf(transactions[i]) = 2 * Minute
                           /\ CoverFindings(resp.result.items, transactions[i].id) = <<>>

\* ---------------------------------------------------------------------------
\* Detector 4 (SpecDiscount): cashier accounts are registered, price edits of
\* several actors are appended to the chain, and the detector runs.  The
\* variable arg holds the ids of the cashier accounts registered since the seed.
\* ---------------------------------------------------------------------------
MaxRegistered == 3
MaxDiscountLog == 7
RegisteredIds == <<"cashier4", "cashier5", "cashier6", "cashier7">>
DiscountActors == {"cashier1", "cashier2", "manager1"}

\* POST /api/auth/register with role cashier.
Register ==
    /\ Len(arg) < MaxRegistered
    /\ Len(arg) < Len(RegisteredIds)
    /\ arg' = Append(arg, RegisteredIds[Len(arg) + 1])
    /\ resp' = [op |-> "register", status |-> 201]
    /\ UNCHANGED <<log, seq, atk, now, store>>

\* A price_edited row about an existing bill, chained as appendLog chains.
PriceEditAppend ==
    /\ seq < MaxDiscountLog
    /\ \E u \in DiscountActors,
          id \in {transactions[i].id : i \in 1..Len(transactions)} :
            log' = AppendLog(log, seq, id, "price_edited", u, "{}", now)
    /\ seq' = seq + 1
    /\ resp' = [op |-> "append"]
    /\ UNCHANGED <<atk, arg, now, store>>

ScanDiscountAbuse ==
    /\ resp' = [op |-> "discount-abuse",
                result |-> DetectDiscountAbuseAmong(arg, now - 24 * Hour)]
    /\ UNCHANGED <<log, seq, atk, arg, now, store>>

NextDiscount ==
    \/ PostTransaction
    \/ Register
    \/ PriceEditAppend
    \/ ScanDiscountAbuse

SpecDiscount == InitApi /\ [][NextDiscount]_vars

\* Price edits of an actor, and of all actors, in the log.
EditsOf(u) == Cardinality({i \in 1..Len(log) : log[i].action = "price_edited" /\ log[i].performed_by = u})
EditsTotal == Cardinality({i \in 1..Len(log) : log[i].action = "price_edited"})

DiscountFindings(items, u) == SelectSeq(items, LAMBDA f : f.kind = "discount" /\ f.ref = u)

HourReadings == <<T0, T0 + 30 * Minute, T0 + 60 * Minute, T0 + 61 * Minute, T0 + 12 * Hour + 59 * Minute, T0 + 13 * Hour + 30 * Minute, T0 + 14 * Hour + 10 * Minute, T0 + 22 * Hour + 50 * Minute, T0 + 23 * Hour + 30 * Minute>>

HourClock ==
    /\ \E i, j \in 1..Len(HourReadings) :
          /\ i < j
          /\ now = HourReadings[i]
          /\ now' = HourReadings[j]
    /\ resp' = NoResp
    /\ UNCHANGED <<log, seq, atk, arg, store>>

NextHours ==
    \/ TAppend
    \/ HourClock
    \/ RunDetectLogTampering
    \/ AnomalyScan

SpecHours == InitTamper /\ [][NextHours]_vars

\* Seconds since local midnight.
TimeOfDay(t) == (t + TZOffsetSec) % Day

GapFindings(items, id) == SelectSeq(items, LAMBDA f : f.kind = "gap" /\ f.ref = ToString(id))

\* The rule of detector 5 for the pair log[i-1], log[i], with business hours
\* ending at the time of day closing.
GapPairRule(items, i, closing) ==
    LET gap == log[i].timestamp - log[i - 1].timestamp
        start == TimeOfDay(log[i - 1].timestamp)
        reported == gap > 30 * Minute /\ start >= 8 * Hour /\ start <= closing
        found == GapFindings(items, log[i].id)
    IN  /\ Len(found) = (IF reported THEN 1 ELSE 0)
        /\ reported => found[1].severity = (IF gap > 60 * Minute THEN "critical" ELSE "high")

\* C21: a pair of id-adjacent entries is reported by detector 5 exactly when
\* the later timestamp exceeds the earlier by more than 30 minutes and the
\* earlier entry's local time lies in 08:00 to 22:00, critical above 60
\* minutes and high otherwise; a gap starting at 22:30 is not reported.
C21_GapInBusinessHours ==
    resp.op = "detectLogTampering" =>
        \A i \in 2..Len(log) : GapPairRule(resp.result.items, i, 22 * Hour)

\* C21, as the code has it: the hour of the earlier entry is compared with 22,
\* so the business hours end at 22:59:59.
C21_GapUntilHour22Ends ==
    resp.op = "detectLogTampering" =>
        \A i \in 2..Len(log) : GapPairRule(resp.result.items, i, 23 * Hour - 1)

\* C21: a gap of 40 minutes starting at 22:30 is reported.
C21_ReportedAfter22 ==
    /\ resp.op = "detectLogTampering"
    /\ \E i \in 2..Len(log) : /\ TimeOfDay(log[i - 1].timestamp) = 22 * Hour + 30 * Minute
                              /\ GapFindings(resp.result.items, log[i].id) # <<>>

\* Pairs of adjacent entries that are both older than the window of scan r.
PairsBefore(r) == {i \in 2..Len(log) : /\ log[i - 1].timestamp < SinceOf(r)
                                       /\ log[i].timestamp < SinceOf(r)}

\* C22: within fullScan(windowHours), a pair of entries older than
\* now - windowHours never produces a timestamp-gap finding of detector 5.
C22_GapsHonorWindow ==
    (resp.op = "scan" /\ ~resp.result.threw) =>
        \A i \in PairsBefore(resp.result) : ~HasFinding(resp.result, "gap", ToString(log[i].id))

\* C22: entries of 09:00 and 10:00, scanned over the last hour at 21:59 or
\* later, are reported as a gap.
C22_GapBeforeWindow ==
    /\ resp.op = "scan"
    /\ ~resp.result.threw
    /\ SinceOf(resp.result) > T0 + 60 * Minute
    /\ \E i \in PairsBefore(resp.result) : HasFinding(resp.result, "gap", ToString(log[i].id))

\* ---------------------------------------------------------------------------
\* Detector 7 (SpecClock): bills and rows are written while the clock of the
\* till is set forth and back, rows are deleted behind the API, and the
\* detector runs.
\* ---------------------------------------------------------------------------
ClockReadings == {T0, T0 - Minute, T0 - Minute - 1}

ClockSet ==
    /\ \E t \in ClockReadings : t # now /\ now' = t
    /\ resp' = NoResp
    /\ UNCHANGED <<log, seq, atk, arg, store>>

\* AnomalyEngine.detectTimeManipulation(since) over the last 24 hours.
RunDetectTimeManipulation ==
    /\ \E q \in OutOfOrderQuery(now - 24 * Hour) :
          resp' = [op |-> "detectTimeManipulation",
                   result |-> DetectTimeManipulation(now - 24 * Hour, q, now)]
    /\ UNCHANGED <<log, seq, atk, arg, now, store>>

NextClock ==
    \/ PostTransaction
    \/ TAppend
    \/ ClockSet
    \/ DeleteEntry
    \/ RunDetectTimeManipulation

SpecClock == InitApi /\ [][NextClock]_vars

FutureRule(items) ==
    \A i \in 1..Len(transactions) :
        LET found == SelectSeq(items, LAMBDA f : f.kind = "future" /\ f.ref = transactions[i].id)
            ahead == transactions[i].created_at > now + 60
        IN  /\ Len(found) = (IF ahead THEN 1 ELSE 0)
            /\ ahead => (found[1].severity = "critical" /\ found[1].confidence = Conf(90))

OutOfOrderRule(items, i) ==
    LET found == SelectSeq(items, LAMBDA f : f.kind = "out_of_order" /\ f.ref = ToString(log[i].id))
        decreasing == log[i].timestamp > log[i + 1].timestamp
    IN  /\ Len(found) = (IF decreasing THEN 1 ELSE 0)
        /\ decreasing => (found[1].severity = "high" /\ found[1].confidence = Conf(85))

\* C23: every bill created more than 60 seconds after the observation time
\* yields a critical finding of confidence 0.90 of detector 7, and every pair
\* of entries adjacent in sequence-id order with decreasing timestamps yields a
\* high finding of confidence 0.85, also when ids between the two are missing.
C23_FutureAndOutOfOrder ==
    resp.op = "detectTimeManipulation" =>
        /\ FutureRule(resp.result.items)
        /\ \A i \in 1..(Len(log) - 1) : OutOfOrderRule(resp.result.items, i)

\* C23, as far as it holds: the pairs whose ids are consecutive numbers.
C23_ConsecutiveIdsOnly ==
    resp.op = "detectTimeManipulation" =>
        /\ FutureRule(resp.result.items)
        /\ \A i \in 1..(Len(log) - 1) :
              log[i + 1].id = log[i].id + 1 => OutOfOrderRule(resp.result.items, i)

\* C23: entries 1 and 3 are neighbours after the removal of entry 2, their
\* timestamps decrease, and nothing is reported.
C23_MissedAcrossHole ==
    /\ resp.op = "detectTimeManipulation"
    /\ resp.result.items = <<>>
    /\ \E i \in 1..(Len(log) - 1) : /\ log[i + 1].id = log[i].id + 2
                                    /\ log[i].timestamp > log[i + 1].timestamp

\* C23: a bill 61 seconds ahead of the clock is reported.
C23_FutureReported ==
    /\ resp.op = "detectTimeManipulation"
    /\ \E k \in 1..Len(resp.result.items) : resp.result.items[k].kind = "future"

\* ---------------------------------------------------------------------------
\* Detector 8, case (a), under SpecCore.
\* ---------------------------------------------------------------------------
SuspiciousInWindow(r) ==
    {k \in 1..Len(camera_events) :
        /\ camera_events[k].event_type \in {"hand_to_pocket", "suspicious_gesture", "drawer_forced_open"}
        /\ camera_events[k].timestamp >= SinceOf(r)}

\* An audit entry of the event's actor within 5 minutes before or after it.
EntryNearby(e) ==
    \E i \in 1..Len(log) : /\ log[i].performed_by = e.cashier_id
                           /\ log[i].timestamp >= e.timestamp - 5 * Minute
                           /\ log[i].timestamp <= e.timestamp + 5 * Minute

\* C24: a suspicious camera event in the window yields a finding of detector
\* 8 (a) exactly when no audit entry of the same actor lies within 5 minutes
\* before or after it; the confidence is the camera confidence x 0.9, the
\* severity critical for drawer_forced_open and high otherwise.
C24_CameraOnlyRule ==
    (resp.op = "scan" /\ ~resp.result.threw) =>
        \A k \in SuspiciousInWindow(resp.result) :
            LET e == camera_events[k]
                found == SelectSeq(resp.result.anomalies, LAMBDA f : f.kind = "camera_only" /\ f.ref = e.id)
            IN  /\ Len(found) = (IF EntryNearby(e) THEN 0 ELSE 1)
                /\ ~EntryNearby(e) =>
                     /\ found[1].confidence = (e.confidence * 9) \div 10
                     /\ found[1].severity = (IF e.event_type = "drawer_forced_open"
                                             THEN "critical" ELSE "high")

\* C24: an event is reported although its actor wrote an audit entry at the
\* same instant.
C24_ReportedDespiteEntry ==
    /\ resp.op = "scan"
    /\ ~resp.result.threw
    /\ \E k \in SuspiciousInWindow(resp.result) :
          /\ EntryNearby(camera_events[k])
          /\ HasFinding(resp.result, "camera_only", camera_events[k].id)

\* C24: an event of the last hour without any entry nearby is not reported.
C24_MissedInWindow ==
    /\ resp.op = "scan"
    /\ ~resp.result.threw
    /\ \E k \in SuspiciousInWindow(resp.result) :
          /\ ~EntryNearby(camera_events[k])
          /\ ~HasFinding(resp.result, "camera_only", camera_events[k].id)

\* ---------------------------------------------------------------------------
\* Monotonicity of the Risk Scorer, under SpecScorer.
\* ---------------------------------------------------------------------------
\* One more suspicious POS action, as evaluateCashier builds it.
MoreSwEvents == [type : {"price_edit", "void_transaction", "refund"}, confidence : {Conf(100)}]

\* One more suspicious camera event, with a confidence in (0, 1].
MoreCamEvents == [event_type : {"hand_to_pocket", "drawer_opened_no_pos", "drawer_forced_open"}, confidence : {Conf(51), Conf(95)}]

\* The camera events of the call all have a confidence in (0, 1].
CamWellFormed == \A i \in 1..Len(arg[2]) : arg[2][i].confidence > 0 /\ arg[2][i].confidence <= Conf(100)

\* combinedScore after the events sw and cam.
CombinedOf(sw, cam) == CombinedScore(CalculateSoftwareScore(sw), CalculatePhysicalScore(cam))

NotLowered(sw, cam) ==
    /\ CombinedOf(sw, cam) >= resp.combined_score
    /\ SeverityRank(GetSeverity(CombinedOf(sw, cam))) >= SeverityRank(resp.severity)

\* C25: adding one more suspicious POS action or camera event to an actor's
\* window never lowers the combined score nor moves the severity to a lower
\* band.
C25_ScoreMonotone ==
    (resp.op = "severity" /\ CamWellFormed) =>
        /\ \A e \in MoreSwEvents : NotLowered(Append(arg[1], e), arg[2])
        /\ \A e \in MoreCamEvents : NotLowered(arg[1], Append(arg[2], e))

\* C25, as far as it holds: one more event of a kind the actor already has.
C25_MonotoneWithinBranch ==
    (resp.op = "severity" /\ CamWellFormed) =>
        /\ \A e \in MoreSwEvents : Len(arg[1]) > 0 => NotLowered(Append(arg[1], e), arg[2])
        /\ \A e \in MoreCamEvents : Len(arg[2]) > 0 => NotLowered(arg[1], Append(arg[2], e))

\* C25: an actor with camera events only drops when a void is added.
C25_DropsOnFirstVoid ==
    /\ resp.op = "severity"
    /\ CamWellFormed
    /\ arg[1] = <<>>
    /\ resp.combined_score > 0
    /\ CombinedOf(<<[type |-> "void_transaction", confidence |-> Conf(100)]>>, arg[2]) < resp.combined_score

\* ---------------------------------------------------------------------------
\* Concurrent requests (SpecWriters).  Two requests are in flight; each runs
\* its appendLog calls, and each appendLog is two statements, the SELECT of the
\* last hash and the INSERT.  A scan reads the log for the chain and later
\* queries the id gaps.  The variable arg holds the handler that runs, the
\* appendLog calls each request has left, its position, the hash it has read,
\* and the rows the scan has read.
\* ---------------------------------------------------------------------------
MaxWriterLog == 4
Writers == {"w1", "w2"}
WriterUser(w) == IF w = "w1" THEN "cashier1" ELSE "admin"

\* The appendLog calls of a request: cash-payment, create.
Requests == {<<"cash_payment", "completed", "drawer_opened">>, <<"created">>}

\* The handlers call better-sqlite3 synchronously and never await: a handler
\* that has started keeps the thread until it returns.
MayRunAlways(running, w) == TRUE

MayRun(running, w) == running \in {"none", w}

\* The INSERT of appendLog with the hash read before; an AUTOINCREMENT id that
\* skips a number.
InsertLogSkipping(l, s, prevHash, transactionId, action, performedBy, details, timestamp) ==
    LET entry == [transaction_id |-> transactionId, action |-> action,
                  performed_by |-> performedBy, details |-> details,
                  timestamp |-> timestamp, prev_hash |-> prevHash]
    IN  Append(l, [obj |-> TRUE, id |-> 2 * s + 1, transaction_id |-> transactionId,
                   action |-> action, performed_by |-> performedBy,
                   details |-> details, timestamp |-> timestamp,
                   prev_hash |-> prevHash, hash |-> GenerateHash(entry, prevHash)])

\* The INSERT of appendLog with the hash prevHash read before.
InsertLog(l, s, prevHash, transactionId, action, performedBy, details, timestamp) ==
    LET entry == [transaction_id |-> transactionId, action |-> action,
                  performed_by |-> performedBy, details |-> details,
                  timestamp |-> timestamp, prev_hash |-> prevHash]
    IN  Append(l, [obj |-> TRUE, id |-> s + 1, transaction_id |-> transactionId,
                   action |-> action, performed_by |-> performedBy,
                   details |-> details, timestamp |-> timestamp,
                   prev_hash |-> prevHash, hash |-> GenerateHash(entry, prevHash)])

InitWriters ==
    /\ log = <<>>
    /\ seq = 0
    /\ StoreSeeded
    /\ atk = <<>>
    /\ arg = [running |-> "none",
              left |-> [w \in Writers |-> <<>>],
              pc |-> [w \in Writers |-> "read"],
              prev |-> [w \in Writers |-> NullHash],
              scanning |-> FALSE,
              logs |-> <<>>]
    /\ now = T0
    /\ resp = NoResp

\* Rows the requests in flight have yet to insert.
Pending == Len(arg.left["w1"]) + Len(arg.left["w2"])

\* The event loop starts the handler of a request.
Dispatch ==
    \E w \in Writers, req \in Requests :
        /\ MayRun(arg.running, w)
        /\ arg.left[w] = <<>>
        /\ seq + Pending + Len(req) <= MaxWriterLog
        /\ arg' = [arg EXCEPT !.running = w, !.left[w] = req, !.pc[w] = "read"]
        /\ UNCHANGED <<log, seq, atk, now, resp, store>>

\* SELECT hash FROM transaction_log ORDER BY id DESC LIMIT 1
ReadLastHash ==
    \E w \in Writers :
        /\ MayRun(arg.running, w)
        /\ arg.left[w] # <<>>
        /\ arg.pc[w] = "read"
        /\ arg' = [arg EXCEPT !.running = w, !.pc[w] = "insert",
                              !.prev[w] = IF Len(log) > 0 THEN log[Len(log)].hash
                                          ELSE NullHash]
        /\ UNCHANGED <<log, seq, atk, now, resp, store>>

\* INSERT INTO transaction_log; the handler returns after its last appendLog.
InsertEntry ==
    \E w \in Writers :
        /\ MayRun(arg.running, w)
        /\ arg.left[w] # <<>>
        /\ arg.pc[w] = "insert"
        /\ log' = InsertLog(log, seq, arg.prev[w], "t1", Head(arg.left[w]),
                            WriterUser(w), "{}", now)
        /\ seq' = seq + 1
        /\ arg' = [arg EXCEPT !.running = IF Len(arg.left[w]) = 1 THEN "none" ELSE w,
                              !.left[w] = Tail(arg.left[w]),
                              !.pc[w] = "read"]
        /\ UNCHANGED <<atk, now, resp, store>>

\* detectLogTampering: SELECT * FROM transaction_log ORDER BY id ASC
ScanReadLog ==
    /\ ~arg.scanning
    /\ arg' = [arg EXCEPT !.scanning = TRUE, !.logs = log]
    /\ UNCHANGED <<log, seq, atk, now, resp, store>>

\* detectLogTampering: the id-gap query, on the table as it is by then.
ScanIdGaps ==
    /\ arg.scanning
    /\ \E q \in IdGapQuery(log) :
          resp' = [op |-> "detectLogTampering", read |-> Len(arg.logs),
                   present |-> Len(log),
                   result |-> DetectLogTampering(arg.logs, q, now)]
    /\ arg' = [arg EXCEPT !.scanning = FALSE, !.logs = <<>>]
    /\ UNCHANGED <<log, seq, atk, now, store>>

NextWriters ==
    \/ Dispatch
    \/ ReadLastHash
    \/ InsertEntry
    \/ ScanReadLog
    \/ ScanIdGaps
    \/ AnomalyIntegrity

SpecWriters == InitWriters /\ [][NextWriters]_vars

\* C26: when two POS writes append concurrently, the read of the last hash and
\* the insert of appendLog are not separated by another append: no two entries
\* carry the same prev_hash and the chain stays valid.
C26_AppendAtomic ==
    /\ \A i, j \in 1..Len(log) : i # j => log[i].prev_hash # log[j].prev_hash
    /\ VerifyChain(log).valid
    /\ \A w \in Writers : arg.pc[w] = "insert" =>
           arg.prev[w] = (IF Len(log) > 0 THEN log[Len(log)].hash ELSE NullHash)

\* C26: a second request was started while the first had appendLog calls left
\* to be dispatched after it, and both have written their rows.
C26_Witness ==
    /\ Len(log) = MaxWriterLog
    /\ \E i, j \in 1..Len(log) : /\ i < j
                                 /\ log[i].performed_by = "admin"
                                 /\ log[j].performed_by = "cashier1"
                                 /\ log[j].action = "drawer_opened"

\* C27: a scan that runs while requests append reports no chain break and no
\* id gap, whichever prefix of the log its queries see, also when rows are
\* appended between the chain read and the id-gap query; nor does
\* integrityReport.
C27_NoFalseTampering ==
    /\ resp.op = "detectLogTampering" =>
          /\ ~resp.result.threw
          /\ \A k \in 1..Len(resp.result.items) :
                resp.result.items[k].kind \notin {"chain_break", "id_gap"}
    /\ resp.op = "integrity" => (~resp.result.threw /\ resp.result.valid)

\* C27: rows were appended between the two reads of a scan.
C27_Witness ==
    /\ resp.op = "detectLogTampering"
    /\ resp.read > 0
    /\ resp.present >= resp.read + 2
    /\ resp.result.items = <<>>

\* ---------------------------------------------------------------------------
\* The write routes of the POS and the scan (SpecPos).
\* ---------------------------------------------------------------------------
NextPos ==
    \/ PostTransaction
    \/ PostItem
    \/ DeleteItem
    \/ CashPayment
    \/ OnlinePayment
    \/ DrawerForced
    \/ VoidTransaction
    \/ RefundTransaction
    \/ Tick
    \/ AnomalyScan

SpecPos == InitApi /\ [][NextPos]_vars

DrawerOpenedRows == {i \in 1..Len(log) : log[i].action = "drawer_opened"}

\* C28: for every drawer_opened entry the cash payment writes there is an
\* earlier cash_payment entry of the same bill, not later than it and within
\* the 5 minutes before it, and detector 1 yields no finding for it.
C28_CashPaymentNotFlagged ==
    /\ \A i \in DrawerOpenedRows :
          /\ i >= 3
          /\ log[i - 2].action = "cash_payment"
          /\ log[i - 1].action = "completed"
          /\ log[i - 2].transaction_id = log[i].transaction_id
          /\ log[i - 2].timestamp <= log[i].timestamp
          /\ log[i - 2].timestamp >= log[i].timestamp - 5 * Minute
    /\ (resp.op = "scan" /\ ~resp.result.threw) =>
          \A i \in DrawerOpenedRows :
              ~HasFinding(resp.result, "drawer_unmatched", ToString(log[i].id))

\* C28: a scan whose window holds the drawer_opened entry of a cash payment.
C28_Witness ==
    /\ resp.op = "scan"
    /\ ~resp.result.threw
    /\ \E i \in DrawerOpenedRows : log[i].timestamp >= SinceOf(resp.result)

\* The answers of a refused cash payment.
CashRefusals == {"Transaction is not open", "No items in transaction", "cash_received must be a number", "Insufficient cash", "Customer presence not verified"}

\* The rows a step has appended all carry one user of the requests.
AppendedBy(l1, l2) ==
    /\ Len(l2) > Len(l1)
    /\ SubSeq(l2, 1, Len(l1)) = l1
    /\ \E u \in Actors : \A i \in (Len(l1) + 1)..Len(l2) : l2[i].performed_by = u

RefusalChangesNothing == (resp'.op = "rejected" /\ resp'.error \in CashRefusals) => (log' = log /\ seq' = seq /\ store' = store)

\* C29: a refused cash payment leaves the bill, the drawer balance, the drawer
\* entries and the audit log as they were, and every accepted state-changing
\* POS operation appends at least one audit entry carrying the acting user.
C29_RejectedOrAudited ==
    [][/\ RefusalChangesNothing
       /\ store' # store => AppendedBy(log, log')]_vars

\* C29, as far as it holds: the operations on bills.
C29_BillWritesAudited ==
    [][/\ RefusalChangesNothing
       /\ (store' # store /\ resp'.op # "drawer-forced") => AppendedBy(log, log')]_vars

\* C29: a forced drawer opening has been recorded and the audit log is empty.
C29_ForcedWithoutEntry ==
    /\ resp.op = "drawer-forced"
    /\ Len(alerts) = 1
    /\ log = <<>>

\* The moves of a bill's status within one step.
StatusMoves ==
    {<<transactions[i].status, transactions'[i].status>> : i \in 1..Len(transactions)}
        \ {<<st, st>> : st \in {"open", "completed", "voided", "refunded"}}

\* C30: a bill's status only moves open -> completed (cash or online payment),
\* completed -> refunded, and any status but voided -> voided; a voided bill
\* never changes status again; items are added or removed only while the bill
\* is open; a refund is accepted only for a completed bill.
C30_Lifecycle ==
    [][/\ Len(transactions') >= Len(transactions)
       /\ \A mv \in StatusMoves :
             \/ mv = <<"open", "completed">> /\ resp'.op \in {"cash-payment", "online-payment"}
             \/ mv = <<"completed", "refunded">> /\ resp'.op = "refund"
             \/ mv[1] # "voided" /\ mv[2] = "voided" /\ resp'.op = "void"
       /\ transaction_items' # transaction_items =>
             (resp'.op \in {"add-item", "remove-item"} /\ Txn(resp'.id).status = "open")
       /\ (resp'.op = "refund" /\ resp'.status = 200) =>
             (Txn(resp'.id).status = "completed" /\ StatusMoves = {<<"completed", "refunded">>})
       /\ (resp'.op \in {"cash-payment", "online-payment"} /\ resp'.status = 200) =>
             StatusMoves = {<<"open", "completed">>}
       /\ (resp'.op = "void" /\ resp'.status = 200) =>
             \E st \in {"open", "completed", "refunded"} : StatusMoves = {<<st, "voided">>}]_vars

\* C30: a bill was sold, refunded and then voided.
C30_Witness ==
    \E i \in 1..Len(transactions) : /\ transactions[i].status = "voided"
                                    /\ transactions[i].refunded_at # NullTime
                                    /\ transactions[i].completed_at # NullTime

====
